---- MODULE Spec2Model ----
(***************************************************************************)
(* Model of the multi-timeframe MACD signal-and-backtest engine:           *)
(*   - MACDStrategy (strategies/macd_strategy.py): batch signal generator, *)
(*     position/profit tracker, statistics;                                *)
(*   - MACDIndicator over BaseIndicator (indicators/base.py, macd.py):     *)
(*     the streaming processor reading an append-only price log;           *)
(*   - backtesting/backtest_engine.py: per-timeframe data loading and the  *)
(*     multi-timeframe orchestration.                                      *)
(*                                                                         *)
(* Floating-point values (EMAs, MACD, signal) are fixed-point integers in  *)
(* units of 1/Scale; a division rounds down.  Prices are whole numbers.    *)
(***************************************************************************)
EXTENDS Integers, Sequences, FiniteSets, TLC

VARIABLES
    call,        \* arguments of the pending MACDStrategy(...) construction
    strategy,    \* the MACDStrategy instance (its fields), None before __init__
    cp,          \* frame of MACDStrategy.calculate_profit: pc, locals, result
    input_file,  \* stock_data/<EXCHANGE>_<TICKER>_1minute.csv: None, or its lines
    output_file, \* strategy_data/macd_<...>_1minute.csv: its lines
    indicator,   \* the MACDIndicator instance (its fields)
    update_ret,  \* value returned by the last update(), None before the first
    stock_data,  \* the files of STOCK_DATA_FOLDER for one (exchange, symbol)
    run,         \* frame of the running orchestration entry point
    best         \* best_timeframe of print_comprehensive_results, when found

batch_vars == <<call, strategy, cp>>
stream_vars == <<input_file, output_file, indicator, update_ret>>
orch_vars == <<stock_data, run, best>>
vars == <<batch_vars, stream_vars, orch_vars>>

\* Python's None and a present value v are <<>> and <<v>>.
None == <<>>
Some(v) == <<v>>

\* body(v) for v the value of e: a local variable assigned once, read often.
Bind(e, body(_)) == CHOOSE r \in {body(v) : v \in {e}} : TRUE

(***************************************************************************)
(* Bounds of the model and program constants.                              *)
(***************************************************************************)
Scale == 10000          \* fixed-point units per 1.0
MaxRows == 5            \* rows the live writer appends to the price log
SegLen == 10            \* bars per segment of a generated close series
BaseClose == 100        \* close before the first bar of a generated series

DEFAULT_FAST_PERIOD == 12
DEFAULT_SLOW_PERIOD == 26
DEFAULT_SIGNAL_PERIOD == 9
DEFAULT_QUANTITY == 100
MIN_DATA_POINTS == 50

Slopes == {-1, 0, 1}
NumSegs == (MIN_DATA_POINTS + SegLen - 1) \div SegLen
Quantities == {1, DEFAULT_QUANTITY}

(***************************************************************************)
(* Generated bar series: the close moves by one slope per bar, the slope   *)
(* changing every SegLen bars and the slope pattern repeating.  date is    *)
(* the bar's position in time.                                             *)
(***************************************************************************)
\* Sum of the slopes of the first q segments (the pattern repeats).
RECURSIVE SumSegments(_, _)
SumSegments(slopes, q) ==
    IF q = 0 THEN 0
    ELSE IF q > Len(slopes)
    THEN (q \div Len(slopes)) * SumSegments(slopes, Len(slopes))
             + SumSegments(slopes, q % Len(slopes))
    ELSE slopes[q] + SumSegments(slopes, q - 1)

CloseAt(slopes, t) ==
    LET q == (t - 1) \div SegLen
    IN BaseClose + SegLen * SumSegments(slopes, q)
                 + (t - q * SegLen) * slopes[(q % Len(slopes)) + 1]

ZigZag(slopes, n) ==
    [t \in 1..n |-> [date |-> t, close |-> CloseAt(slopes, t)]]

SeriesInputs ==
    {ZigZag(s, NumSegs * SegLen) : s \in [1..NumSegs -> Slopes]}

(***************************************************************************)
(* pandas Series.ewm(span, adjust=False).mean():                           *)
(*   y[1] = x[1];  y[t] = alpha*x[t] + (1-alpha)*y[t-1], alpha = 2/(span+1)*)
(***************************************************************************)
EwmStep(x, prev, span) == (2 * x + (span - 1) * prev) \div (span + 1)

\* The recursion over the bars lo..hi, in time order, appending to acc.  The
\* range is halved (the left half done before the right one starts) so that
\* the evaluation depth stays logarithmic in the series length.
RECURSIVE EwmRange(_, _, _, _, _)
EwmRange(xs, span, lo, hi, acc) ==
    IF lo > hi THEN acc
    ELSE IF lo = hi
         THEN Append(acc, IF lo = 1 THEN xs[1]
                          ELSE EwmStep(xs[lo], acc[lo - 1], span))
         ELSE Bind(EwmRange(xs, span, lo, (lo + hi) \div 2, acc),
                   LAMBDA left :
                       EwmRange(xs, span, (lo + hi) \div 2 + 1, hi, left))

Ewm(xs, span) ==
    Bind(xs, LAMBDA v : EwmRange(v, span, 1, Len(v), <<>>))

(***************************************************************************)
(* MACDStrategy.generate_signals: the columns added to self.df.            *)
(***************************************************************************)
\* The buy mask with `>=` on the current bar.
BuySignalAt_nonstrict(macd, signal, t) ==
    /\ t > 1
    /\ macd[t] >= signal[t]
    /\ macd[t - 1] <= signal[t - 1]

\* The buy mask with `<` on the previous bar.
BuySignalAt_strict_previous(macd, signal, t) ==
    /\ t > 1
    /\ macd[t] > signal[t]
    /\ macd[t - 1] < signal[t - 1]

BuySignalAt(macd, signal, t) ==
    /\ t > 1
    /\ macd[t] > signal[t]
    /\ macd[t - 1] <= signal[t - 1]

\* The sell mask with the shift applied to the wrong side: previous bar below,
\* current bar at or above.
SellSignalAt_shifted(macd, signal, t) ==
    /\ t > 1
    /\ macd[t - 1] < signal[t - 1]
    /\ macd[t] >= signal[t]

SellSignalAt(macd, signal, t) ==
    /\ t > 1
    /\ macd[t] < signal[t]
    /\ macd[t - 1] >= signal[t - 1]

SignalRows(frame, ema12, ema26, macd, signal) ==
    [t \in 1..Len(frame) |->
        [EMA_12 |-> ema12[t],
         EMA_26 |-> ema26[t],
         MACD |-> macd[t],
         Signal |-> signal[t],
         MACD_Histogram |-> macd[t] - signal[t],
         Buy_Signal |-> BuySignalAt(macd, signal, t),
         Sell_Signal |-> SellSignalAt(macd, signal, t)] @@ frame[t]]

SignalColumns(frame, fast, slow, sig) ==
    Bind(Ewm([t \in 1..Len(frame) |-> frame[t].close * Scale], fast),
      LAMBDA ema12 :
    Bind(Ewm([t \in 1..Len(frame) |-> frame[t].close * Scale], slow),
      LAMBDA ema26 :
    Bind([t \in 1..Len(frame) |-> ema12[t] - ema26[t]],
      LAMBDA macd :
    Bind(Ewm(macd, sig),
      LAMBDA signal : SignalRows(frame, ema12, ema26, macd, signal)))))

(***************************************************************************)
(* MACDStrategy._validate_inputs: the ValueError it raises, or "ok".       *)
(***************************************************************************)
\* float('nan') in a close column: a value no close takes.  Every comparison
\* with it is False, and isna() is True of it alone.
NaN == 0 - (Scale * Scale)

isna(x) == x = NaN

LeZero(x) == ~isna(x) /\ x <= 0

\* The validation without the isna() test of the close column.
_validate_inputs_no_isna(df, quantity, fast_period, slow_period, signal_period) ==
    IF df = None \/ Len(df) = 0 THEN "DataFrame cannot be None or empty"
    ELSE IF "close" \notin DOMAIN df[1] THEN "DataFrame must contain 'close' column"
    ELSE IF Len(df) < MIN_DATA_POINTS THEN "Insufficient data"
    ELSE IF quantity <= 0 THEN "Quantity must be positive"
    ELSE IF fast_period <= 0 \/ slow_period <= 0 \/ signal_period <= 0
         THEN "All periods must be positive integers"
    ELSE IF fast_period >= slow_period
         THEN "Fast period must be less than slow period"
    ELSE IF \E t \in 1..Len(df) : LeZero(df[t].close)
         THEN "Close prices must be positive"
    ELSE "ok"

_validate_inputs(df, quantity, fast_period, slow_period, signal_period) ==
    IF df = None \/ Len(df) = 0 THEN "DataFrame cannot be None or empty"
    ELSE IF "close" \notin DOMAIN df[1] THEN "DataFrame must contain 'close' column"
    ELSE IF Len(df) < MIN_DATA_POINTS THEN "Insufficient data"
    ELSE IF quantity <= 0 THEN "Quantity must be positive"
    ELSE IF fast_period <= 0 \/ slow_period <= 0 \/ signal_period <= 0
         THEN "All periods must be positive integers"
    ELSE IF fast_period >= slow_period
         THEN "Fast period must be less than slow period"
    ELSE IF \E t \in 1..Len(df) : isna(df[t].close)
         THEN "Close prices contain NaN values"
    ELSE IF \E t \in 1..Len(df) : LeZero(df[t].close)
         THEN "Close prices must be positive"
    ELSE "ok"

(***************************************************************************)
(* MACDStrategy.calculate_profit: one iteration of the loop over           *)
(* self.df.iterrows(), on the locals w = [position, trades].               *)
(***************************************************************************)
\* The loop body with the profit taken per unit: the quantity is forgotten.
ProfitRow_per_unit(w, row, quantity) ==
    IF row.Buy_Signal /\ w.position = None
    THEN [w EXCEPT !.position =
             Some([buy_price |-> row.close, buy_date |-> row.date])]
    ELSE IF row.Sell_Signal /\ w.position # None
    THEN LET pos == w.position[1]
         IN [position |-> None,
             trades |-> Append(w.trades,
                 [buy_date |-> pos.buy_date,
                  sell_date |-> row.date,
                  buy_price |-> pos.buy_price,
                  sell_price |-> row.close,
                  profit |-> row.close - pos.buy_price,
                  return_pct |-> ((row.close - pos.buy_price) * 100 * Scale)
                                     \div pos.buy_price])]
    ELSE w

\* The loop body that emits the trade but leaves the position open.
ProfitRow_stays_long(w, row, quantity) ==
    IF row.Buy_Signal /\ w.position = None
    THEN [w EXCEPT !.position =
             Some([buy_price |-> row.close, buy_date |-> row.date])]
    ELSE IF row.Sell_Signal /\ w.position # None
    THEN LET pos == w.position[1]
         IN [w EXCEPT !.trades = Append(w.trades,
                 [buy_date |-> pos.buy_date,
                  sell_date |-> row.date,
                  buy_price |-> pos.buy_price,
                  sell_price |-> row.close,
                  profit |-> (row.close - pos.buy_price) * quantity,
                  return_pct |-> ((row.close - pos.buy_price) * 100 * Scale)
                                     \div pos.buy_price])]
    ELSE w

\* The loop body that re-enters on every Buy flag, long or not.
ProfitRow_pyramids(w, row, quantity) ==
    IF row.Buy_Signal
    THEN [w EXCEPT !.position =
             Some([buy_price |-> row.close, buy_date |-> row.date])]
    ELSE IF row.Sell_Signal /\ w.position # None
    THEN LET pos == w.position[1]
         IN [position |-> None,
             trades |-> Append(w.trades,
                 [buy_date |-> pos.buy_date,
                  sell_date |-> row.date,
                  buy_price |-> pos.buy_price,
                  sell_price |-> row.close,
                  profit |-> (row.close - pos.buy_price) * quantity,
                  return_pct |-> ((row.close - pos.buy_price) * 100 * Scale)
                                     \div pos.buy_price])]
    ELSE w

ProfitRow(w, row, quantity) ==
    IF row.Buy_Signal /\ w.position = None
    THEN [w EXCEPT !.position =
             Some([buy_price |-> row.close, buy_date |-> row.date])]
    ELSE IF row.Sell_Signal /\ w.position # None
    THEN LET pos == w.position[1]
             sell_price == row.close
             profit == (sell_price - pos.buy_price) * quantity
         IN [position |-> None,
             trades |-> Append(w.trades,
                 [buy_date |-> pos.buy_date,
                  sell_date |-> row.date,
                  buy_price |-> pos.buy_price,
                  sell_price |-> sell_price,
                  profit |-> profit,
                  return_pct |-> ((sell_price - pos.buy_price) * 100 * Scale)
                                     \div pos.buy_price])]
    ELSE w

\* trades_df["profit"].sum() if not trades_df.empty else 0.0
RECURSIVE SumProfit(_, _)
SumProfit(trades, k) ==
    IF k = 0 THEN 0 ELSE trades[k].profit + SumProfit(trades, k - 1)

TotalProfit(trades) ==
    IF Len(trades) = 0 THEN 0 ELSE SumProfit(trades, Len(trades))

(***************************************************************************)
(* The batch strategy as a state machine: construction, then the public    *)
(* methods generate_signals and calculate_profit (its loop one bar a step).*)
(***************************************************************************)
IdleFrame == [pc |-> "idle", index |-> 0, position |-> None, trades |-> <<>>,
              total_profit |-> 0]

ShortSeries == ZigZag([k \in 1..NumSegs |-> 1], MIN_DATA_POINTS - 1)

InitBatch ==
    /\ \E d \in SeriesInputs \cup {ShortSeries, <<>>}, q \in Quantities :
          call = [df |-> d, quantity |-> q,
                  fast_period |-> DEFAULT_FAST_PERIOD,
                  slow_period |-> DEFAULT_SLOW_PERIOD,
                  signal_period |-> DEFAULT_SIGNAL_PERIOD,
                  pending |-> TRUE, raised |-> None]
    /\ strategy = None
    /\ cp = IdleFrame
    /\ input_file = None /\ output_file = <<>>
    /\ indicator = None /\ update_ret = None
    /\ stock_data = None /\ run = None /\ best = None

\* MACDStrategy.__init__
MACDStrategy_init ==
    /\ strategy = None
    /\ call.pending
    /\ LET err == _validate_inputs(call.df, call.quantity, call.fast_period,
                                   call.slow_period, call.signal_period)
       IN IF err = "ok"
          THEN /\ strategy' = Some([df |-> call.df,
                                    quantity |-> call.quantity,
                                    fast_period |-> call.fast_period,
                                    slow_period |-> call.slow_period,
                                    signal_period |-> call.signal_period,
                                    signals_generated |-> FALSE])
               /\ call' = [call EXCEPT !.pending = FALSE]
          ELSE /\ call' = [call EXCEPT !.pending = FALSE,
                                       !.raised = Some(err)]
               /\ UNCHANGED strategy
    /\ UNCHANGED <<cp, stream_vars, orch_vars>>

GenerateSignals(self) ==
    [self EXCEPT !.df = SignalColumns(self.df, self.fast_period,
                                      self.slow_period, self.signal_period),
                 !.signals_generated = TRUE]

generate_signals ==
    /\ strategy # None
    /\ cp.pc # "loop"
    /\ strategy' = Some(GenerateSignals(strategy[1]))
    /\ UNCHANGED <<call, cp, stream_vars, orch_vars>>

\* calculate_profit up to the loop: generates the signals when missing.
calculate_profit_enter ==
    /\ strategy # None
    /\ cp.pc # "loop"
    /\ strategy' = IF strategy[1].signals_generated THEN strategy
                   ELSE Some(GenerateSignals(strategy[1]))
    /\ cp' = [IdleFrame EXCEPT !.pc = "loop", !.index = 1]
    /\ UNCHANGED <<call, stream_vars, orch_vars>>

calculate_profit_row ==
    /\ cp.pc = "loop"
    /\ cp.index <= Len(strategy[1].df)
    /\ LET w == ProfitRow([position |-> cp.position, trades |-> cp.trades],
                          strategy[1].df[cp.index], strategy[1].quantity)
       IN cp' = [cp EXCEPT !.index = @ + 1,
                           !.position = w.position,
                           !.trades = w.trades]
    /\ UNCHANGED <<call, strategy, stream_vars, orch_vars>>

\* The return that first sells a position still open at the last close.
calculate_profit_return_liquidates ==
    /\ cp.pc = "loop"
    /\ cp.index > Len(strategy[1].df)
    /\ LET last == strategy[1].df[Len(strategy[1].df)]
           closed == IF cp.position = None THEN cp.trades
                     ELSE Append(cp.trades,
                            [buy_date |-> cp.position[1].buy_date,
                             sell_date |-> last.date,
                             buy_price |-> cp.position[1].buy_price,
                             sell_price |-> last.close,
                             profit |-> (last.close - cp.position[1].buy_price)
                                            * strategy[1].quantity,
                             return_pct |->
                                 ((last.close - cp.position[1].buy_price)
                                      * 100 * Scale)
                                     \div cp.position[1].buy_price])
       IN cp' = [cp EXCEPT !.pc = "returned",
                           !.position = None,
                           !.trades = closed,
                           !.total_profit = TotalProfit(closed)]
    /\ UNCHANGED <<call, strategy, stream_vars, orch_vars>>

calculate_profit_return ==
    /\ cp.pc = "loop"
    /\ cp.index > Len(strategy[1].df)
    /\ cp' = [cp EXCEPT !.pc = "returned",
                        !.total_profit = TotalProfit(cp.trades)]
    /\ UNCHANGED <<call, strategy, stream_vars, orch_vars>>

NextBatch ==
    \/ MACDStrategy_init
    \/ generate_signals
    \/ calculate_profit_enter
    \/ calculate_profit_row
    \/ calculate_profit_return

SpecBatch == InitBatch /\ [][NextBatch]_vars

(***************************************************************************)
(* Construction over inputs that break each constraint of                  *)
(* _validate_inputs, alone and together: frames without a close column,    *)
(* short or empty, with a missing, zero or negative close at a drawn bar,  *)
(* and quantities and periods around zero and around each other.           *)
(***************************************************************************)
BadBars == {1, MIN_DATA_POINTS}

BadCloses == {NaN, 0, -1}

NoCloseFrame == [t \in 1..MIN_DATA_POINTS |-> [date |-> t, open |-> BaseClose]]

\* frame `df` with the closes at the bars of `at` replaced
WithCloses(df, at) ==
    [t \in 1..Len(df) |->
        IF t \in DOMAIN at THEN [df[t] EXCEPT !.close = at[t]] ELSE df[t]]

ConstructFrames ==
    {<<>>, NoCloseFrame, ShortSeries}
    \cup {WithCloses(ZigZag(<<1, -1>>, MIN_DATA_POINTS), at) :
             at \in UNION {[S -> BadCloses] : S \in SUBSET BadBars}}

ConstructQuantities == {-1, 0, 1, DEFAULT_QUANTITY}

ConstructPeriods ==
    {0, DEFAULT_FAST_PERIOD, DEFAULT_SLOW_PERIOD}
    \X {0, DEFAULT_FAST_PERIOD, DEFAULT_SLOW_PERIOD}
    \X {0, DEFAULT_SIGNAL_PERIOD}

InitConstruct ==
    /\ \E d \in ConstructFrames, q \in ConstructQuantities,
          p \in ConstructPeriods :
          call = [df |-> d, quantity |-> q,
                  fast_period |-> p[1],
                  slow_period |-> p[2],
                  signal_period |-> p[3],
                  pending |-> TRUE, raised |-> None]
    /\ strategy = None
    /\ cp = IdleFrame
    /\ input_file = None /\ output_file = <<>>
    /\ indicator = None /\ update_ret = None
    /\ stock_data = None /\ run = None /\ best = None

SpecConstruct == InitConstruct /\ [][NextBatch]_vars

(***************************************************************************)
(* calculate_profit on a strategy whose signals are generated, for every   *)
(* way the MACD line can lie against the signal line.  MACD[t] - Signal[t] *)
(* is affine in close[t] with a positive factor, so each sequence of signs *)
(* of the difference belongs to some series; the signs are drawn here (a   *)
(* pattern of WalkCycle signs, repeated) and the flags computed from them  *)
(* as generate_signals computes them.                                      *)
(***************************************************************************)
WalkCycle == 5          \* length of the repeated pattern of signs

WalkFrame == ZigZag(<<1, -1>>, MIN_DATA_POINTS)

WalkRows(pattern) ==
    LET macd == [t \in 1..Len(WalkFrame) |->
                    pattern[((t - 1) % Len(pattern)) + 1]]
        signal == [t \in 1..Len(WalkFrame) |-> 0]
        ema26 == [t \in 1..Len(WalkFrame) |-> WalkFrame[t].close * Scale]
        ema12 == [t \in 1..Len(WalkFrame) |-> ema26[t] + macd[t]]
    IN SignalRows(WalkFrame, ema12, ema26, macd, signal)

InitWalk ==
    /\ \E pattern \in [1..WalkCycle -> {-1, 0, 1}], q \in Quantities :
          /\ strategy = Some([df |-> WalkRows(pattern),
                              quantity |-> q,
                              fast_period |-> DEFAULT_FAST_PERIOD,
                              slow_period |-> DEFAULT_SLOW_PERIOD,
                              signal_period |-> DEFAULT_SIGNAL_PERIOD,
                              signals_generated |-> TRUE])
          /\ call = [df |-> WalkFrame, quantity |-> q,
                     fast_period |-> DEFAULT_FAST_PERIOD,
                     slow_period |-> DEFAULT_SLOW_PERIOD,
                     signal_period |-> DEFAULT_SIGNAL_PERIOD,
                     pending |-> FALSE, raised |-> None]
    /\ cp = IdleFrame
    /\ input_file = None /\ output_file = <<>>
    /\ indicator = None /\ update_ret = None
    /\ stock_data = None /\ run = None /\ best = None

NextWalk ==
    \/ calculate_profit_enter
    \/ calculate_profit_row
    \/ calculate_profit_return

SpecWalk == InitWalk /\ [][NextWalk]_vars

(***************************************************************************)
(* The streaming processor: MACDIndicator over BaseIndicator.              *)
(*                                                                         *)
(* A line of the price log is the header `time,last_price` or a row        *)
(* `timestamp,price`.  While the writer is still writing a row, a reader   *)
(* sees a prefix of it: cut = "timestamp" when it ends inside the          *)
(* timestamp (no comma yet), cut = "price" when it ends after `digits`     *)
(* characters of the price, cut = "none" when the row is complete.         *)
(***************************************************************************)
StreamPrices == {98, 105}
StreamPeriods == {<<2, 3, 2>>, <<1, 2, 4>>}

HeaderLine == [kind |-> "header", ts |-> 0, price |-> 0,
               cut |-> "none", digits |-> 0]
RowLine(ts, price) == [kind |-> "row", ts |-> ts, price |-> price,
                       cut |-> "none", digits |-> 0]

RECURSIVE NumDigits(_)
NumDigits(n) == IF n < 10 THEN 1 ELSE 1 + NumDigits(n \div 10)

RECURSIVE Pow10(_)
Pow10(k) == IF k = 0 THEN 1 ELSE 10 * Pow10(k - 1)

\* float() of the first `digits` characters of the decimal text of price
PricePrefix(price, digits) == price \div Pow10(NumDigits(price) - digits)

\* The body of the loop of _read_new_data on one line: the (timestamp, price)
\* appended to new_data, or None when the line is skipped.
ParseLine(line) ==
    IF line.kind = "header" THEN None          \* strptime("time"): ValueError
    ELSE IF line.cut = "timestamp" THEN None   \* no ',' in the line
    ELSE IF line.cut = "price"
         THEN IF line.digits = 0 THEN None     \* float(""): ValueError
              ELSE Some([timestamp |-> line.ts,
                         price |-> PricePrefix(line.price, line.digits)])
    ELSE Some([timestamp |-> line.ts, price |-> line.price])

RECURSIVE ParseFrom(_, _, _)
ParseFrom(lines, i, new_data) ==
    IF i > Len(lines) THEN new_data
    ELSE ParseFrom(lines, i + 1,
                   IF ParseLine(lines[i]) = None THEN new_data
                   ELSE Append(new_data, ParseLine(lines[i])[1]))

\* _read_new_data starting one line early: range(last_processed_line - 1, ..).
_read_new_data_one_early(self, file) ==
    IF file = None
    THEN [self |-> self, new_data |-> <<>>]
    ELSE [self |-> [self EXCEPT !.last_processed_line = Len(file[1])],
          new_data |-> ParseFrom(file[1],
                                 IF self.last_processed_line = 0 THEN 1
                                 ELSE self.last_processed_line, <<>>)]

\* _read_new_data re-reading the whole file on every call.
_read_new_data_from_start(self, file) ==
    IF file = None
    THEN [self |-> self, new_data |-> <<>>]
    ELSE [self |-> [self EXCEPT !.last_processed_line = Len(file[1])],
          new_data |-> ParseFrom(file[1], 1, <<>>)]

\* BaseIndicator._read_new_data: the instance after the call, and new_data.
\* The read that counts a line as processed when the file is not found.
_read_new_data_missing_counts(self, file) ==
    IF file = None
    THEN [self |-> [self EXCEPT !.last_processed_line = 1], new_data |-> <<>>]
    ELSE [self |-> [self EXCEPT !.last_processed_line = Len(file[1])],
          new_data |-> ParseFrom(file[1], self.last_processed_line + 1, <<>>)]

_read_new_data(self, file) ==
    IF file = None                             \* FileNotFoundError
    THEN [self |-> self, new_data |-> <<>>]
    ELSE [self |-> [self EXCEPT !.last_processed_line = Len(file[1])],
          new_data |-> ParseFrom(file[1], self.last_processed_line + 1, <<>>)]

\* The EMA step that starts from 0 when no EMA is held.
_calculate_ema_from_zero(price, prev_ema, period) ==
    IF prev_ema = None THEN EwmStep(price, 0, period)
    ELSE EwmStep(price, prev_ema[1], period)

\* price if prev_ema is None else alpha*price + (1-alpha)*prev_ema, with
\* alpha = 2/(period+1)
_calculate_ema(price, prev_ema, period) ==
    IF prev_ema = None THEN price ELSE EwmStep(price, prev_ema[1], period)

RECURSIVE SumLast(_, _)
SumLast(values, k) ==
    IF k = 0 \/ Len(values) = 0 THEN 0
    ELSE values[Len(values)]
         + SumLast(SubSeq(values, 1, Len(values) - 1), k - 1)

\* The average that sums every value instead of the last `period` ones.
_calculate_sma_all(values, period) == SumLast(values, Len(values)) \div period

\* sum(values[-period:]) / period
_calculate_sma(values, period) == SumLast(values, period) \div period

\* The step whose warm-up signal repeats the signal written one step before.
_process_new_price_trailing(self, timestamp, price) ==
    LET prices == Append(self.prices, price * Scale)
        n == Len(prices)
        fast_ema ==
            IF n = 1 THEN price * Scale
            ELSE IF n <= self.slow_period
            THEN IF n >= self.fast_period
                 THEN SumLast(prices, self.fast_period) \div self.fast_period
                 ELSE EwmStep(price * Scale, self.fast_ema[1],
                              self.fast_period)
            ELSE EwmStep(price * Scale, self.fast_ema[1], self.fast_period)
        slow_ema ==
            IF n = 1 THEN price * Scale
            ELSE IF n <= self.slow_period
            THEN IF n = self.slow_period
                 THEN SumLast(prices, self.slow_period) \div self.slow_period
                 ELSE EwmStep(price * Scale, self.slow_ema[1],
                              self.slow_period)
            ELSE EwmStep(price * Scale, self.slow_ema[1], self.slow_period)
        macd_value == IF n = 1 THEN 0 ELSE fast_ema - slow_ema
        temp_macd == Append(self.macd_line, macd_value)
        held == IF self.signal_ema # None THEN self.signal_ema[1]
                ELSE macd_value
        sig ==
            IF n = 1 THEN <<0, self.signal_ema>>
            ELSE IF n <= self.slow_period
            THEN <<self.signal_line[n - 1], self.signal_ema>>
            ELSE IF Len(self.macd_line) >= self.signal_period
            THEN LET e == IF self.signal_ema = None THEN macd_value
                          ELSE EwmStep(macd_value, self.signal_ema[1],
                                       self.signal_period)
                 IN <<e, Some(e)>>
            ELSE IF Len(temp_macd) >= self.signal_period
            THEN LET a == SumLast(temp_macd, self.signal_period)
                              \div self.signal_period
                 IN <<a, Some(a)>>
            ELSE <<held, self.signal_ema>>
    IN [self EXCEPT !.timestamps = Append(@, timestamp),
                    !.prices = prices,
                    !.fast_ema = Some(fast_ema),
                    !.slow_ema = Some(slow_ema),
                    !.signal_ema = sig[2],
                    !.macd_line = temp_macd,
                    !.signal_line = Append(@, sig[1]),
                    !.histogram = Append(@, macd_value - sig[1])]

\* The step that takes the EMA branch of the signal only once a signal_ema
\* is held, so that the averaged seed comes first.
_process_new_price_seeds_first(self, timestamp, price) ==
    LET prices == Append(self.prices, price * Scale)
        n == Len(prices)
        fast_ema ==
            IF n = 1 THEN price * Scale
            ELSE IF n <= self.slow_period
            THEN IF n >= self.fast_period
                 THEN _calculate_sma(prices, self.fast_period)
                 ELSE _calculate_ema(price * Scale, self.fast_ema,
                                     self.fast_period)
            ELSE _calculate_ema(price * Scale, self.fast_ema, self.fast_period)
        slow_ema ==
            IF n = 1 THEN price * Scale
            ELSE IF n <= self.slow_period
            THEN IF n = self.slow_period
                 THEN _calculate_sma(prices, self.slow_period)
                 ELSE _calculate_ema(price * Scale, self.slow_ema,
                                     self.slow_period)
            ELSE _calculate_ema(price * Scale, self.slow_ema, self.slow_period)
        macd_value == IF n = 1 THEN 0 ELSE fast_ema - slow_ema
        temp_macd == Append(self.macd_line, macd_value)
        held == IF self.signal_ema # None THEN self.signal_ema[1]
                ELSE macd_value
        \* <<signal_value, signal_ema after the step>>
        sig ==
            IF n = 1 THEN <<0, self.signal_ema>>
            ELSE IF n <= self.slow_period THEN <<held, self.signal_ema>>
            ELSE IF self.signal_ema # None
            THEN LET e == _calculate_ema(macd_value, self.signal_ema,
                                         self.signal_period)
                 IN <<e, Some(e)>>
            ELSE IF Len(temp_macd) >= self.signal_period
            THEN LET a == SumLast(temp_macd, self.signal_period)
                              \div self.signal_period
                 IN <<a, Some(a)>>
            ELSE <<held, self.signal_ema>>
    IN [self EXCEPT !.timestamps = Append(@, timestamp),
                    !.prices = prices,
                    !.fast_ema = Some(fast_ema),
                    !.slow_ema = Some(slow_ema),
                    !.signal_ema = sig[2],
                    !.macd_line = temp_macd,
                    !.signal_line = Append(@, sig[1]),
                    !.histogram = Append(@, macd_value - sig[1])]

\* MACDIndicator._process_new_price: the instance after the call.  The
\* returned (macd, signal, histogram) are the last entries of its lists.
_process_new_price(self, timestamp, price) ==
    LET prices == Append(self.prices, price * Scale)
        n == Len(prices)
        fast_ema ==
            IF n = 1 THEN price * Scale
            ELSE IF n <= self.slow_period
            THEN IF n >= self.fast_period
                 THEN _calculate_sma(prices, self.fast_period)
                 ELSE _calculate_ema(price * Scale, self.fast_ema,
                                     self.fast_period)
            ELSE _calculate_ema(price * Scale, self.fast_ema, self.fast_period)
        slow_ema ==
            IF n = 1 THEN price * Scale
            ELSE IF n <= self.slow_period
            THEN IF n = self.slow_period
                 THEN _calculate_sma(prices, self.slow_period)
                 ELSE _calculate_ema(price * Scale, self.slow_ema,
                                     self.slow_period)
            ELSE _calculate_ema(price * Scale, self.slow_ema, self.slow_period)
        macd_value == IF n = 1 THEN 0 ELSE fast_ema - slow_ema
        temp_macd == Append(self.macd_line, macd_value)
        held == IF self.signal_ema # None THEN self.signal_ema[1]
                ELSE macd_value
        \* <<signal_value, signal_ema after the step>>
        sig ==
            IF n = 1 THEN <<0, self.signal_ema>>
            ELSE IF n <= self.slow_period THEN <<held, self.signal_ema>>
            ELSE IF Len(self.macd_line) >= self.signal_period
            THEN LET e == _calculate_ema(macd_value, self.signal_ema,
                                         self.signal_period)
                 IN <<e, Some(e)>>
            ELSE IF Len(temp_macd) >= self.signal_period
            THEN LET a == SumLast(temp_macd, self.signal_period)
                              \div self.signal_period
                 IN <<a, Some(a)>>
            ELSE <<held, self.signal_ema>>
    IN [self EXCEPT !.timestamps = Append(@, timestamp),
                    !.prices = prices,
                    !.fast_ema = Some(fast_ema),
                    !.slow_ema = Some(slow_ema),
                    !.signal_ema = sig[2],
                    !.macd_line = temp_macd,
                    !.signal_line = Append(@, sig[1]),
                    !.histogram = Append(@, macd_value - sig[1])]

\* BaseIndicator._write_to_output: the row appended to the output file.
OutputRow(self, timestamp, price) ==
    [kind |-> "row", timestamp |-> timestamp, price |-> price,
     macd_line |-> self.macd_line[Len(self.macd_line)],
     signal_line |-> self.signal_line[Len(self.signal_line)],
     histogram |-> self.histogram[Len(self.histogram)]]

OutputHeader == [kind |-> "header"]

\* The loop that writes to the indicator log only once the warm-up is over.
RECURSIVE ProcessFrom_logs_after_warmup(_, _, _, _)
ProcessFrom_logs_after_warmup(self, out, new_data, k) ==
    IF k > Len(new_data) THEN [self |-> self, out |-> out]
    ELSE LET after == _process_new_price(self, new_data[k].timestamp,
                                         new_data[k].price)
         IN ProcessFrom_logs_after_warmup(after,
                IF Len(after.prices) <= after.slow_period THEN out
                ELSE Append(out, OutputRow(after, new_data[k].timestamp,
                                           new_data[k].price)),
                new_data, k + 1)

\* The loop of BaseIndicator.update over new_data, from its k-th element.
RECURSIVE ProcessFrom(_, _, _, _)
ProcessFrom(self, out, new_data, k) ==
    IF k > Len(new_data) THEN [self |-> self, out |-> out]
    ELSE LET after == _process_new_price(self, new_data[k].timestamp,
                                         new_data[k].price)
         IN ProcessFrom(after,
                        Append(out, OutputRow(after, new_data[k].timestamp,
                                              new_data[k].price)),
                        new_data, k + 1)

\* MACDIndicator.__init__ / BaseIndicator.__init__
NewIndicator(periods) ==
    [fast_period |-> periods[1], slow_period |-> periods[2],
     signal_period |-> periods[3],
     prices |-> <<>>, timestamps |-> <<>>, last_processed_line |-> 0,
     macd_line |-> <<>>, signal_line |-> <<>>, histogram |-> <<>>,
     fast_ema |-> None, slow_ema |-> None, signal_ema |-> None]

InitStream ==
    /\ input_file = None
    /\ \E periods \in StreamPeriods : indicator = NewIndicator(periods)
    /\ output_file = <<OutputHeader>>       \* _initialize_output_file
    /\ update_ret = None
    /\ call = None /\ strategy = None /\ cp = IdleFrame
    /\ stock_data = None /\ run = None /\ best = None

DataRows(lines) == SelectSeq(lines, LAMBDA l : l.kind = "row")

\* BaseIndicator.update
update ==
    /\ LET read == _read_new_data(indicator, input_file)
           done == ProcessFrom(read.self, output_file, read.new_data, 1)
       IN /\ indicator' = done.self
          /\ output_file' = done.out
          /\ update_ret' = Some(Len(read.new_data))
    /\ UNCHANGED <<input_file, batch_vars, orch_vars>>

\* The live writer, MarketDataLogger.append_live_price: one row appended to
\* the price log, after the header when the file is new.
AppendedRow(file, line) ==
    IF file = None THEN Some(<<HeaderLine, line>>)
    ELSE Some(Append(file[1], line))

RowCount(file) == IF file = None THEN 0 ELSE Len(DataRows(file[1]))

Writing(file) ==
    /\ file # None
    /\ file[1][Len(file[1])].cut # "none"

append_live_price ==
    /\ ~Writing(input_file)
    /\ RowCount(input_file) < MaxRows
    /\ \E price \in StreamPrices :
          input_file' = AppendedRow(input_file,
                                    RowLine(RowCount(input_file) + 1, price))
    /\ UNCHANGED <<output_file, indicator, update_ret, batch_vars, orch_vars>>

NextStream ==
    \/ append_live_price
    \/ update

SpecStream == InitStream /\ [][NextStream]_vars

\* A processor constructed again for the same exchange and ticker:
\* BaseIndicator.__init__ empties the data, _initialize_indicator_data the
\* MACD state, and _initialize_output_file opens the indicator log with mode
\* 'w' and writes the header.
MACDIndicator_init ==
    /\ \E periods \in StreamPeriods : indicator' = NewIndicator(periods)
    /\ output_file' = <<OutputHeader>>
    /\ update_ret' = None
    /\ UNCHANGED <<input_file, batch_vars, orch_vars>>

NextRestart ==
    \/ append_live_price
    \/ update
    \/ MACDIndicator_init

SpecRestart == InitStream /\ [][NextRestart]_vars

(***************************************************************************)
(* The processor over periods that reach every branch of                   *)
(* _process_new_price within MaxRows prices: a fast period above 2 (an EMA *)
(* step of fast_ema during warm-up), a signal period at most the slow one  *)
(* (the EMA branch right after warm-up) and above it (the averaged seed).  *)
(***************************************************************************)
WarmupPeriods == StreamPeriods \cup {<<3, 4, 2>>}

InitWarmup ==
    /\ input_file = None
    /\ \E periods \in WarmupPeriods : indicator = NewIndicator(periods)
    /\ output_file = <<OutputHeader>>
    /\ update_ret = None
    /\ call = None /\ strategy = None /\ cp = IdleFrame
    /\ stock_data = None /\ run = None /\ best = None

SpecWarmup == InitWarmup /\ [][NextStream]_vars

(***************************************************************************)
(* The price log by name.  A file name is the sequence of the parts that   *)
(* the f-string joins with '_'; the directory is stock_data for the writer *)
(* (DEFAULT_OUTPUT_DIR) and for the reader.  input_file is the file at the *)
(* processor's input path, stock_data the other files of the directory.    *)
(***************************************************************************)
Exchanges == {"NSE", "BSE"}

Symbols == {"ITI", "NSE", "iti"}

\* str.upper()
upper(s) == CASE s = "iti" -> "ITI"
              [] s = "nse" -> "NSE"
              [] s = "bse" -> "BSE"
              [] OTHER -> s

\* MarketDataLogger._get_price_file_path / PriceLogger.append_live_price
_get_price_file_path(symbol, exchange) == <<symbol, exchange, "1minute.csv">>

\* BaseIndicator._setup_file_paths: self.input_file
_setup_file_paths(exchange, ticker) ==
    <<upper(exchange), upper(ticker), "1minute.csv">>

PricePaths ==
    {_get_price_file_path(s, e) : s \in Symbols, e \in Exchanges}

\* MACDIndicator(exchange, ticker) and a MarketDataLogger, before any tick of
\* (exchange, ticker) is ingested.
InitPaths ==
    /\ \E e \in Exchanges, s \in Symbols :
          call = [exchange |-> e, symbol |-> s,
                  input_file |-> _setup_file_paths(e, s)]
    /\ \E periods \in StreamPeriods : indicator = NewIndicator(periods)
    /\ input_file = None
    /\ output_file = <<OutputHeader>>
    /\ update_ret = None
    /\ stock_data = [p \in PricePaths |-> None]
    /\ strategy = None /\ cp = IdleFrame
    /\ run = None /\ best = None

\* append_live_price(exchange, symbol, last_price) for the pair the processor
\* was created for: the row goes to the file of the writer's name.
append_live_price_named ==
    LET file_path == _get_price_file_path(call.symbol, call.exchange)
    IN \E price \in StreamPrices :
          IF file_path = call.input_file
          THEN /\ RowCount(input_file) < MaxRows
               /\ input_file' = AppendedRow(input_file,
                                     RowLine(RowCount(input_file) + 1, price))
               /\ UNCHANGED <<output_file, indicator, update_ret, batch_vars,
                              orch_vars>>
          ELSE /\ RowCount(stock_data[file_path]) < MaxRows
               /\ stock_data' = [stock_data EXCEPT ![file_path] =
                      AppendedRow(@, RowLine(RowCount(@) + 1, price))]
               /\ UNCHANGED <<input_file, output_file, indicator, update_ret,
                              batch_vars, run, best>>

NextPaths ==
    \/ append_live_price_named
    \/ update

SpecPaths == InitPaths /\ [][NextPaths]_vars

\* The same writer seen by a concurrent reader: the row becomes visible in
\* two steps, first a prefix of it, then the whole line.
append_live_price_begin ==
    /\ ~Writing(input_file)
    /\ RowCount(input_file) < MaxRows
    /\ \E price \in StreamPrices :
          \E cut \in {"timestamp", "price"} :
             \E digits \in 0..(NumDigits(price) - 1) :
                /\ (cut = "timestamp" => digits = 0)
                /\ input_file' = AppendedRow(input_file,
                       [RowLine(RowCount(input_file) + 1, price)
                           EXCEPT !.cut = cut, !.digits = digits])
    /\ UNCHANGED <<output_file, indicator, update_ret, batch_vars, orch_vars>>

append_live_price_end ==
    /\ Writing(input_file)
    /\ input_file' = Some([input_file[1] EXCEPT
                              ![Len(input_file[1])].cut = "none",
                              ![Len(input_file[1])].digits = 0])
    /\ UNCHANGED <<output_file, indicator, update_ret, batch_vars, orch_vars>>

NextConcurrent ==
    \/ append_live_price
    \/ append_live_price_begin
    \/ append_live_price_end
    \/ update

SpecConcurrent == InitStream /\ [][NextConcurrent]_vars

(***************************************************************************)
(* backtesting/backtest_engine.py: data loading.                           *)
(*                                                                         *)
(* STOCK_DATA_FOLDER holds, per timeframe key, the file                    *)
(* <EXCHANGE>_<SYMBOL>_<key>.csv: None when absent, else                   *)
(* [ok, rows] where ok = FALSE is a file pandas cannot read and rows are   *)
(* the `date,close` lines of a readable one.  Dates are minutes.           *)
(***************************************************************************)
FirstMinute == 555      \* date of the first bar of a generated file
MaxPreFiles == 2        \* timeframe files present besides the 1m file

TIMEFRAMES == <<"1m", "10m", "30m", "1h", "3h", "1d">>

Description(timeframe_key) ==
    CASE timeframe_key = "1m" -> "1 Minute"
      [] timeframe_key = "10m" -> "10 Minutes"
      [] timeframe_key = "30m" -> "30 Minutes"
      [] timeframe_key = "1h" -> "1 Hour"
      [] timeframe_key = "3h" -> "3 Hours"
      [] timeframe_key = "1d" -> "1 Day"

\* minutes per bar of a timeframe (resample_factor; a day for '1D')
BarMinutes(timeframe_key) ==
    CASE timeframe_key = "1m" -> 1
      [] timeframe_key = "10m" -> 10
      [] timeframe_key = "30m" -> 30
      [] timeframe_key = "1h" -> 60
      [] timeframe_key = "3h" -> 180
      [] timeframe_key = "1d" -> 1440

Max(a, b) == IF a >= b THEN a ELSE b
Min(a, b) == IF a <= b THEN a ELSE b

\* _load_csv_file: None when reading fails, else the frame indexed by date
\* with open/high/low/volume made up from the close column.
_load_csv_file(file) ==
    IF file = None \/ ~file[1].ok THEN None
    ELSE LET rows == file[1].rows
             open(t) == IF t = 1 THEN rows[1].close ELSE rows[t - 1].close
         IN Some([t \in 1..Len(rows) |->
                    [date |-> rows[t].date,
                     close |-> rows[t].close,
                     open |-> open(t),
                     high |-> Max(open(t), rows[t].close),
                     low |-> Min(open(t), rows[t].close),
                     volume |-> 1000]])

\* df.resample(rule).agg(first/max/min/last/sum).dropna(): bars lo..hi of
\* df folded into acc, the buckets built so far.  Only buckets that hold a
\* bar are built, which is what dropna() leaves.
ResampleBar(acc, bar, minutes) ==
    LET bucket == (bar.date \div minutes) * minutes
        k == Len(acc)
    IN IF k > 0 /\ acc[k].date = bucket
       THEN [acc EXCEPT ![k] =
                [@ EXCEPT !.high = Max(@, bar.high),
                          !.low = Min(@, bar.low),
                          !.close = bar.close,
                          !.volume = @ + bar.volume]]
       ELSE Append(acc, [date |-> bucket, open |-> bar.open,
                         high |-> bar.high, low |-> bar.low,
                         close |-> bar.close, volume |-> bar.volume])

RECURSIVE ResampleRange(_, _, _, _, _)
ResampleRange(df, minutes, lo, hi, acc) ==
    IF lo > hi THEN acc
    ELSE IF lo = hi THEN ResampleBar(acc, df[lo], minutes)
    ELSE Bind(ResampleRange(df, minutes, lo, (lo + hi) \div 2, acc),
              LAMBDA left :
                  ResampleRange(df, minutes, (lo + hi) \div 2 + 1, hi, left))

Resample(df, minutes) ==
    Bind(df, LAMBDA v : ResampleRange(v, minutes, 1, Len(v), <<>>))

\* The aggregation that resamples whatever the 1m file holds.
_aggregate_to_10m_no_threshold(files) ==
    LET df_1m == _load_csv_file(files["1m"])
    IN IF df_1m = None THEN None
       ELSE Some(Resample(df_1m[1], 10))

_aggregate_to_10m(files) ==
    LET df_1m == _load_csv_file(files["1m"])
    IN IF df_1m = None THEN None
       ELSE IF Len(df_1m[1]) < 10 THEN None
       ELSE Some(Resample(df_1m[1], 10))

_aggregate_to_30m(files) ==
    LET df_1m == _load_csv_file(files["1m"])
    IN IF df_1m = None THEN None
       ELSE IF Len(df_1m[1]) < 30 THEN None
       ELSE Some(Resample(df_1m[1], 30))

_aggregate_to_1h(files) ==
    LET df_1m == _load_csv_file(files["1m"])
    IN IF df_1m # None /\ Len(df_1m[1]) >= 60
       THEN Some(Resample(df_1m[1], 60))
       ELSE None

_aggregate_to_3h(files) ==
    LET df_1m == _load_csv_file(files["1m"])
    IN IF df_1m # None /\ Len(df_1m[1]) >= 180
       THEN Some(Resample(df_1m[1], 180))
       ELSE None

_aggregate_to_1d(files) ==
    LET df_1m == _load_csv_file(files["1m"])
    IN IF df_1m # None /\ Len(df_1m[1]) >= 1440
       THEN Some(Resample(df_1m[1], 1440))
       ELSE _load_csv_file(files["1d"])

\* load_local_data: the exact file when it exists, else the aggregation of
\* the 1m file; "1m" falls back to the other names it is stored under.
load_local_data(files, timeframe) ==
    IF files[timeframe] # None THEN _load_csv_file(files[timeframe])
    ELSE CASE timeframe = "10m" -> _aggregate_to_10m(files)
           [] timeframe = "30m" -> _aggregate_to_30m(files)
           [] timeframe = "1h" -> _aggregate_to_1h(files)
           [] timeframe = "3h" -> _aggregate_to_3h(files)
           [] timeframe = "1d" -> _aggregate_to_1d(files)
           [] OTHER ->
               IF files["1m_historical"] # None
               THEN _load_csv_file(files["1m_historical"])
               ELSE IF files["1d"] # None
               THEN _load_csv_file(files["1d"])
               ELSE None

(***************************************************************************)
(* backtesting/backtest_engine.py: one strategy run over a loaded frame.   *)
(***************************************************************************)
\* MACDStrategy.calculate_profit over the whole frame: rows lo..hi walked
\* from the locals w.
RECURSIVE ProfitRange(_, _, _, _, _)
ProfitRange(df, quantity, lo, hi, w) ==
    IF lo > hi THEN w
    ELSE IF lo = hi THEN ProfitRow(w, df[lo], quantity)
    ELSE Bind(ProfitRange(df, quantity, lo, (lo + hi) \div 2, w),
              LAMBDA left :
                  ProfitRange(df, quantity, (lo + hi) \div 2 + 1, hi, left))

calculate_profit(self) ==
    Bind(IF self.signals_generated THEN self ELSE GenerateSignals(self),
      LAMBDA s :
    Bind(ProfitRange(s.df, s.quantity, 1, Len(s.df),
                     [position |-> None, trades |-> <<>>]),
      LAMBDA w :
        [trades_df |-> w.trades, total_profit |-> TotalProfit(w.trades)]))

RECURSIVE MaxProfit(_, _)
MaxProfit(trades, k) ==
    IF k = 1 THEN trades[1].profit
    ELSE Max(trades[k].profit, MaxProfit(trades, k - 1))

RECURSIVE MinProfit(_, _)
MinProfit(trades, k) ==
    IF k = 1 THEN trades[1].profit
    ELSE Min(trades[k].profit, MinProfit(trades, k - 1))

RECURSIVE SumReturnPct(_, _)
SumReturnPct(trades, k) ==
    IF k = 0 THEN 0 ELSE trades[k].return_pct + SumReturnPct(trades, k - 1)

\* MACDStrategy.get_strategy_stats over the trades and total that its call
\* of calculate_profit returned; ratios are fixed-point.
StrategyStats(trades_df, total_profit) ==
    LET n == Len(trades_df)
        winning_trades == SelectSeq(trades_df, LAMBDA t : t.profit > 0)
        losing_trades == SelectSeq(trades_df, LAMBDA t : t.profit < 0)
    IN IF n = 0
       THEN [total_trades |-> 0, total_profit |-> 0, win_rate |-> 0,
             avg_profit_per_trade |-> 0, max_profit |-> 0, max_loss |-> 0]
       ELSE [total_trades |-> n,
             total_profit |-> total_profit,
             win_rate |-> (Len(winning_trades) * 100 * Scale) \div n,
             avg_profit_per_trade |-> (total_profit * Scale) \div n,
             avg_return_pct |-> SumReturnPct(trades_df, n) \div n,
             max_profit |-> MaxProfit(trades_df, n),
             max_loss |-> MinProfit(trades_df, n),
             winning_trades |-> Len(winning_trades),
             losing_trades |-> Len(losing_trades)]

get_strategy_stats(self) ==
    Bind(calculate_profit(self),
         LAMBDA r : StrategyStats(r.trades_df, r.total_profit))

\* The empty dict {} returned in place of the statistics.
EmptyStats == [k \in {} |-> 0]

\* apply_strategies: (trades_df, total_profit, strategy_stats); whatever the
\* strategy raises is caught here and answered with (empty frame, 0.0, {}).
\* Writing the plot and the signals CSV is taken to succeed.  macd_strategy
\* is the instance as its first calculate_profit() leaves it, with the
\* signal columns generated.
apply_strategies(df, quantity) ==
    IF _validate_inputs(df, quantity, DEFAULT_FAST_PERIOD,
                        DEFAULT_SLOW_PERIOD, DEFAULT_SIGNAL_PERIOD) # "ok"
    THEN [trades_df |-> <<>>, total_profit |-> 0,
          strategy_stats |-> EmptyStats]
    ELSE Bind(GenerateSignals([df |-> df, quantity |-> quantity,
                               fast_period |-> DEFAULT_FAST_PERIOD,
                               slow_period |-> DEFAULT_SLOW_PERIOD,
                               signal_period |-> DEFAULT_SIGNAL_PERIOD,
                               signals_generated |-> FALSE]),
           LAMBDA macd_strategy :
         Bind(calculate_profit(macd_strategy),
           LAMBDA r :
             [trades_df |-> r.trades_df,
              total_profit |-> r.total_profit,
              strategy_stats |-> get_strategy_stats(macd_strategy)]))

\* The entry stored in results for a loaded, non-empty frame.
ResultEntry(df, timeframe_key) ==
    Bind(apply_strategies(df, 100),   \* quantity=100 by default
      LAMBDA a :
        [key |-> timeframe_key,
         timeframe |-> Description(timeframe_key),
         data_points |-> Len(df),
         trades_df |-> a.trades_df,
         total_profit |-> a.total_profit,
         strategy_stats |-> a.strategy_stats,
         data_period |-> <<df[1].date, df[Len(df)].date>>])

\* The loop body that tests `df_timeframe is None or df_timeframe.empty`.
AnalyzeTimeframe_skips_missing(files, timeframe_key) ==
    Bind(load_local_data(files, timeframe_key),
      LAMBDA df_timeframe :
        IF df_timeframe = None \/ Len(df_timeframe[1]) = 0
        THEN [raised |-> None, entry |-> None]
        ELSE [raised |-> None,
              entry |-> Some(ResultEntry(df_timeframe[1], timeframe_key))])

\* The body of the loop of run_multi_timeframe_analysis for one timeframe
\* (the same statements make the tail of run_single_timeframe): the entry
\* stored under the key, None when the timeframe is skipped, or the
\* exception that the statements raise.  `df_timeframe.empty` on the None
\* that load_local_data returned raises AttributeError.
AnalyzeTimeframe(files, timeframe_key) ==
    Bind(load_local_data(files, timeframe_key),
      LAMBDA df_timeframe :
        IF df_timeframe = None
        THEN [raised |-> Some("'NoneType' object has no attribute 'empty'"),
              entry |-> None]
        ELSE IF Len(df_timeframe[1]) = 0
        THEN [raised |-> None, entry |-> None]
        ELSE [raised |-> None,
              entry |-> Some(ResultEntry(df_timeframe[1], timeframe_key))])

\* results[timeframe_key] = entry, on a dict kept in insertion order
Store(results, entry) ==
    IF \E i \in 1..Len(results) : results[i].key = entry.key
    THEN [i \in 1..Len(results) |->
             IF results[i].key = entry.key THEN entry ELSE results[i]]
    ELSE Append(results, entry)

\* max(valid_results.items(), key=total_profit) with a later item of equal
\* profit replacing the earlier one.
RECURSIVE MaxByProfit_last(_, _, _)
MaxByProfit_last(valid_results, k, found) ==
    IF k > Len(valid_results) THEN found
    ELSE MaxByProfit_last(valid_results, k + 1,
             IF valid_results[k].total_profit >= found.total_profit
             THEN valid_results[k] ELSE found)

\* max(valid_results.items(), key=total_profit): the items are compared in
\* the dict's order and a later item replaces the found one only when its
\* key is strictly greater.
RECURSIVE MaxByProfit(_, _, _)
MaxByProfit(valid_results, k, found) ==
    IF k > Len(valid_results) THEN found
    ELSE MaxByProfit(valid_results, k + 1,
             IF valid_results[k].total_profit > found.total_profit
             THEN valid_results[k] ELSE found)

\* print_comprehensive_results: best_timeframe, None when nothing is valid
BestTimeframe(results) ==
    LET valid_results == SelectSeq(results, LAMBDA v : "error" \notin DOMAIN v)
    IN IF Len(valid_results) > 0
       THEN Some(MaxByProfit(valid_results, 2, valid_results[1]))
       ELSE None

(***************************************************************************)
(* The orchestration entry points as a state machine.  stock_data is the   *)
(* folder's content; run is the frame of the entry point being executed:   *)
(* pc, the loop index into TIMEFRAMES, the results dict (entries in        *)
(* insertion order) and the exception that left the entry point, if any.   *)
(***************************************************************************)
FileKeys == {TIMEFRAMES[i] : i \in 1..Len(TIMEFRAMES)} \cup {"1m_historical"}

FileRows(slopes, n, timeframe_key) ==
    [t \in 1..n |-> [date |-> FirstMinute + (t - 1) * BarMinutes(timeframe_key),
                     close |-> CloseAt(slopes, t)]]

File(slopes, n, timeframe_key) ==
    Some([ok |-> TRUE, rows |-> FileRows(slopes, n, timeframe_key)])

Unreadable == Some([ok |-> FALSE, rows |-> <<>>])

\* What the 1m file can be: absent, unreadable, header only, or a series of
\* 9, 60 or 200 bars.
BaseFiles ==
    {None, Unreadable}
    \cup {File(<<-1, 1>>, n, "1m") : n \in {0, 9, 60}}
    \cup {File(<<1, -1, -1, 1>>, n, "1m") : n \in {200}}

\* What the file of another timeframe can be when it is present: header
\* only, or MIN_DATA_POINTS bars that rise first or fall first.
PreShapes ==
    {[slopes |-> <<1, -1>>, n |-> 0],
     [slopes |-> <<1, -1>>, n |-> MIN_DATA_POINTS],
     [slopes |-> <<-1, 1>>, n |-> MIN_DATA_POINTS]}

PreKeys == FileKeys \ {"1m", "1m_historical"}

\* A 1m file of a whole day of bars, alone in the folder.
FullDayFolder ==
    [k \in FileKeys |->
        IF k = "1m" THEN File(<<1, -1, -1, 1>>, 1440, "1m") ELSE None]

Folders ==
    {FullDayFolder} \cup
    UNION {{[k \in FileKeys |->
                IF k = "1m" THEN b
                ELSE IF k \in S THEN File(g[k].slopes, g[k].n, k)
                ELSE None] : g \in [S -> PreShapes], b \in BaseFiles} :
           S \in {T \in SUBSET PreKeys : Cardinality(T) <= MaxPreFiles}}

IdleRun == [pc |-> "idle", fn |-> "none", index |-> 0, results |-> <<>>,
            raised |-> None]

InitOrch ==
    /\ stock_data \in Folders
    /\ run = IdleRun
    /\ best = None
    /\ call = None /\ strategy = None /\ cp = IdleFrame
    /\ input_file = None /\ output_file = <<>>
    /\ indicator = None /\ update_ret = None

\* The entry that goes on to the loop whatever the base data is.
run_multi_timeframe_analysis_no_base_test ==
    /\ run.pc = "idle"
    /\ run' = [run EXCEPT !.pc = "loop", !.fn = "multi", !.index = 1]
    /\ UNCHANGED <<stock_data, best, batch_vars, stream_vars>>

\* run_multi_timeframe_analysis up to its loop: the base data is loaded and
\* the function returns the empty results when there is none.
run_multi_timeframe_analysis ==
    /\ run.pc = "idle"
    /\ LET base_df == _load_csv_file(stock_data["1m"])
       IN IF base_df = None \/ Len(base_df[1]) = 0
          THEN run' = [run EXCEPT !.pc = "returned", !.fn = "multi"]
          ELSE run' = [run EXCEPT !.pc = "loop", !.fn = "multi", !.index = 1]
    /\ UNCHANGED <<stock_data, best, batch_vars, stream_vars>>

\* One iteration of `for timeframe_key, config in TIMEFRAMES.items()`, with
\* its try/except.
run_multi_timeframe_analysis_loop ==
    /\ run.pc = "loop"
    /\ run.index <= Len(TIMEFRAMES)
    /\ LET timeframe_key == TIMEFRAMES[run.index]
           r == AnalyzeTimeframe(stock_data, timeframe_key)
       IN run' = [run EXCEPT
             !.index = @ + 1,
             !.results =
                 IF r.raised # None
                 THEN Store(@, [key |-> timeframe_key,
                                timeframe |-> Description(timeframe_key),
                                error |-> r.raised[1]])
                 ELSE IF r.entry = None THEN @
                 ELSE Store(@, r.entry[1])]
    /\ UNCHANGED <<stock_data, best, batch_vars, stream_vars>>

\* `return results` after the loop
run_multi_timeframe_analysis_return ==
    /\ run.pc = "loop"
    /\ run.index > Len(TIMEFRAMES)
    /\ run' = [run EXCEPT !.pc = "returned"]
    /\ UNCHANGED <<stock_data, best, batch_vars, stream_vars>>

\* run_single_timeframe(timeframe_key) for a key of TIMEFRAMES
run_single_timeframe(timeframe_key) ==
    /\ run.pc = "idle"
    /\ LET base_df == _load_csv_file(stock_data["1m"])
       IN IF base_df = None \/ Len(base_df[1]) = 0
          THEN run' = [run EXCEPT !.pc = "returned", !.fn = "single"]
          ELSE LET r == AnalyzeTimeframe(stock_data, timeframe_key)
               IN run' = [run EXCEPT
                     !.pc = "returned", !.fn = "single",
                     !.raised = IF r.raised # None
                                THEN Some("AttributeError") ELSE None,
                     !.results = IF r.raised = None /\ r.entry # None
                                 THEN <<r.entry[1]>> ELSE <<>>]
    /\ UNCHANGED <<stock_data, best, batch_vars, stream_vars>>

\* print_comprehensive_results(results) on what an entry point returned
print_comprehensive_results ==
    /\ run.pc = "returned"
    /\ run.raised = None
    /\ run' = [run EXCEPT !.pc = "printed"]
    /\ best' = BestTimeframe(run.results)
    /\ UNCHANGED <<stock_data, batch_vars, stream_vars>>

NextOrch ==
    \/ run_multi_timeframe_analysis
    \/ run_multi_timeframe_analysis_loop
    \/ run_multi_timeframe_analysis_return
    \/ \E timeframe_key \in {TIMEFRAMES[i] : i \in 1..Len(TIMEFRAMES)} :
          run_single_timeframe(timeframe_key)
    \/ print_comprehensive_results

SpecOrch == InitOrch /\ [][NextOrch]_vars

(***************************************************************************)
(* Properties of the batch strategy.                                       *)
(***************************************************************************)
\* The trades read off the flag columns by index search: the first Buy flag
\* at or after bar `from` opens, the first Sell flag after it closes.
FirstFlag(df, col, from) ==
    LET hits == {t \in from..Len(df) : df[t][col]}
    IN IF hits = {} THEN 0 ELSE CHOOSE t \in hits : \A u \in hits : t <= u

RECURSIVE FlaggedProfit(_, _, _)
FlaggedProfit(df, quantity, from) ==
    LET b == FirstFlag(df, "Buy_Signal", from)
        s == IF b = 0 THEN 0 ELSE FirstFlag(df, "Sell_Signal", b + 1)
    IN IF b = 0 \/ s = 0 THEN 0
       ELSE (df[s].close - df[b].close) * quantity
            + FlaggedProfit(df, quantity, s + 1)

\* C1: the total_profit returned by calculate_profit equals the sum of
\* (sell_price - buy_price) * quantity over the trades found independently
\* from the flagged bars; it is 0 when no trade completed.
C1_TotalProfitMatchesFlags ==
    cp.pc = "returned" =>
        /\ cp.total_profit =
               FlaggedProfit(strategy[1].df, strategy[1].quantity, 1)
        /\ (Len(cp.trades) = 0 => cp.total_profit = 0)

C1_Witness ==
    /\ cp.pc = "returned"
    /\ Len(cp.trades) >= 2
    /\ cp.total_profit # 0
    /\ strategy[1].quantity > 1

TradesOrdered(f) ==
    /\ \A k \in 1..Len(f.trades) : f.trades[k].buy_date < f.trades[k].sell_date
    /\ \A k \in 1..(Len(f.trades) - 1) :
           f.trades[k].sell_date < f.trades[k + 1].buy_date
    /\ (f.position # None /\ Len(f.trades) > 0) =>
           f.trades[Len(f.trades)].sell_date < f.position[1].buy_date

C10_NeverBothFlags ==
    (strategy # None /\ strategy[1].signals_generated) =>
        \A t \in 1..Len(strategy[1].df) :
            ~(strategy[1].df[t].Buy_Signal /\ strategy[1].df[t].Sell_Signal)

C10_Witness ==
    /\ strategy # None
    /\ strategy[1].signals_generated
    /\ Len(strategy[1].df) >= MIN_DATA_POINTS
    /\ \A t \in 2..Len(strategy[1].df) :
           strategy[1].df[t].close > strategy[1].df[t - 1].close
    /\ \E t \in 1..Len(strategy[1].df) : strategy[1].df[t].Buy_Signal
(***************************************************************************)
(* Properties of the streaming processor.                                  *)
(***************************************************************************)
LinesOf(file) == IF file = None THEN <<>> ELSE file[1]

\* <<timestamp, price>> of the data rows of the indicator log, in file order
WrittenPoints(out) ==
    LET rows == DataRows(out)
    IN [k \in 1..Len(rows) |-> <<rows[k].timestamp, rows[k].price>>]

\* <<timestamp, price>> of the rows among the given lines of the price log
LoggedPoints(lines) ==
    LET rows == DataRows(lines)
    IN [k \in 1..Len(rows) |-> <<rows[k].ts, rows[k].price>>]

\* C3: an update() on a price log that has gained no line since the previous
\* update() returns 0, appends nothing to the indicator log and leaves
\* last_processed_line and the whole indicator state unchanged.
C3_UpdateIdempotent ==
    [][(/\ update
        /\ update_ret # None
        /\ input_file # None
        /\ indicator.last_processed_line = Len(LinesOf(input_file)))
       => (/\ update_ret' = Some(0)
           /\ output_file' = output_file
           /\ indicator' = indicator)]_vars

C3_Witness ==
    /\ update_ret = Some(0)
    /\ Len(indicator.prices) >= 2
    /\ indicator.last_processed_line = Len(LinesOf(input_file))
    /\ Len(output_file) = 1 + Len(indicator.prices)

\* C4: every update() appends exactly one indicator row per row appended to
\* the price log since the previous update(), in input order, so that the
\* indicator log holds as many data rows as the price log held at that read
\* and no row is processed twice.
C4_OneRowPerInputRow ==
    [][update =>
          LET lines == LinesOf(input_file)
              fresh == LoggedPoints(SubSeq(lines,
                           indicator.last_processed_line + 1, Len(lines)))
          IN /\ update_ret' = Some(Len(fresh))
             /\ WrittenPoints(output_file')
                    = WrittenPoints(output_file) \o fresh
             /\ WrittenPoints(output_file') = LoggedPoints(lines)
             /\ Len(DataRows(output_file')) = RowCount(input_file)]_vars

C4_Witness ==
    /\ update_ret = Some(1)
    /\ Len(DataRows(output_file)) >= 3
    /\ Len(DataRows(output_file)) = RowCount(input_file)

\* C5: with the writer appending concurrently, update() never consumes a
\* partial trailing line: every line counted as processed is complete, every
\* indicator row carries the full price of its input row, and no row of the
\* price log that was counted as processed is missing from the indicator log.
C5_NoPartialLineConsumed ==
    LET lines == LinesOf(input_file)
        done == SubSeq(lines, 1, indicator.last_processed_line)
    IN /\ \A i \in 1..Len(done) : done[i].cut = "none"
       /\ WrittenPoints(output_file) = LoggedPoints(done)
(***************************************************************************)
(* Properties of the multi-timeframe orchestration.                        *)
(***************************************************************************)
TimeframeKeys == {TIMEFRAMES[i] : i \in 1..Len(TIMEFRAMES)}

\* Number of bars of the 1m file, 0 when it cannot be read.
BaseBars ==
    IF stock_data["1m"] = None \/ ~stock_data["1m"][1].ok THEN 0
    ELSE Len(stock_data["1m"][1].rows)

\* The timeframe has no file of its own and the 1m file has fewer bars than
\* the aggregation asks for.
Unobtainable(timeframe_key) ==
    /\ timeframe_key # "1m"
    /\ stock_data[timeframe_key] = None
    /\ BaseBars < BarMinutes(timeframe_key)

\* The timeframe has a file with bars, or the 1m file has enough bars.
Obtainable(timeframe_key) ==
    IF stock_data[timeframe_key] # None
    THEN Len(stock_data[timeframe_key][1].rows) > 0
    ELSE timeframe_key # "1m" /\ BaseBars >= BarMinutes(timeframe_key)

HasErrorEntry(timeframe_key) ==
    \E i \in 1..Len(run.results) :
        /\ run.results[i].key = timeframe_key
        /\ "error" \in DOMAIN run.results[i]

HasResultEntry(timeframe_key) ==
    \E i \in 1..Len(run.results) :
        /\ run.results[i].key = timeframe_key
        /\ "error" \notin DOMAIN run.results[i]
        /\ run.results[i].data_points > 0
        /\ "strategy_stats" \in DOMAIN run.results[i]

MultiReturned == run.fn = "multi" /\ run.pc = "returned"

\* C6 as stated: when run_multi_timeframe_analysis has returned, every
\* timeframe whose series cannot be obtained (no file of its own, fewer 1m
\* bars than its threshold) has an entry carrying 'error' in the results.
C6_ErrorEntryForEveryUnobtainable ==
    MultiReturned =>
        \A k \in TimeframeKeys : Unobtainable(k) => HasErrorEntry(k)

\* C6 amended: when run_multi_timeframe_analysis has returned and the 1m
\* base file was read with at least one bar, every timeframe whose series
\* cannot be obtained has an entry carrying 'error', and every timeframe
\* whose series is obtained with bars has a result entry without 'error';
\* when the base file is absent, unreadable or without bars the results
\* are empty.
C6_ErrorEntryWhenBaseLoaded ==
    MultiReturned =>
        IF BaseBars > 0
        THEN \A k \in TimeframeKeys :
                /\ Unobtainable(k) => HasErrorEntry(k)
                /\ Obtainable(k) => HasResultEntry(k)
        ELSE run.results = <<>>

\* 1h failed and 1d succeeded with trades: both entries are in the results.
C6_Witness ==
    /\ MultiReturned
    /\ BaseBars > 0
    /\ Unobtainable("1h") /\ HasErrorEntry("1h")
    /\ \E i \in 1..Len(run.results) :
          /\ run.results[i].key = "1d"
          /\ "error" \notin DOMAIN run.results[i]
          /\ Len(run.results[i].trades_df) > 0
          /\ run.results[i].strategy_stats.total_trades > 0

\* The strategy raises on the series loaded for the timeframe.
StrategyFails(timeframe_key) ==
    LET df_timeframe == load_local_data(stock_data, timeframe_key)
    IN /\ df_timeframe # None
       /\ Len(df_timeframe[1]) > 0
       /\ _validate_inputs(df_timeframe[1], 100, DEFAULT_FAST_PERIOD,
                           DEFAULT_SLOW_PERIOD, DEFAULT_SIGNAL_PERIOD) # "ok"

\* C7: when run_multi_timeframe_analysis has returned, every timeframe on
\* whose series the strategy raised has an entry carrying 'error'.
C7_StrategyFailureIsErrorEntry ==
    MultiReturned /\ BaseBars > 0 =>
        \A k \in TimeframeKeys : StrategyFails(k) => HasErrorEntry(k)

ConfigIndex(timeframe_key) ==
    CHOOSE i \in 1..Len(TIMEFRAMES) : TIMEFRAMES[i] = timeframe_key

C9_EntryPointsNeverRaise ==
    run.raised = None

(***************************************************************************)
(* Properties of generate_signals and of the walk over its flags.          *)
(***************************************************************************)
\* C11: in the frame generate_signals leaves, Buy_Signal is true at bar t
\* exactly when MACD[t] > Signal[t] and MACD[t-1] <= Signal[t-1], Sell_Signal
\* exactly when MACD[t] < Signal[t] and MACD[t-1] >= Signal[t-1], and the
\* first bar carries neither flag.
C11_FlagsAreCrossings ==
    (strategy # None /\ strategy[1].signals_generated) =>
        LET df == strategy[1].df
        IN /\ ~df[1].Buy_Signal /\ ~df[1].Sell_Signal
           /\ \A t \in 2..Len(df) :
                 /\ df[t].Buy_Signal <=>
                        (/\ df[t].MACD > df[t].Signal
                         /\ df[t - 1].MACD <= df[t - 1].Signal)
                 /\ df[t].Sell_Signal <=>
                        (/\ df[t].MACD < df[t].Signal
                         /\ df[t - 1].MACD >= df[t - 1].Signal)

\* Signals generated on a series with a Buy bar, a Sell bar, a bar where the
\* lines touch and a bar above the signal line that is no crossing.
C11_Witness ==
    /\ strategy # None
    /\ strategy[1].signals_generated
    /\ LET df == strategy[1].df
       IN /\ \E t \in 2..Len(df) : df[t].Buy_Signal
          /\ \E t \in 2..Len(df) : df[t].Sell_Signal
          /\ \E t \in 2..Len(df) : df[t].MACD = df[t].Signal
          /\ \E t \in 2..Len(df) :
                df[t].MACD > df[t].Signal /\ ~df[t].Buy_Signal

\* The bar the loop of calculate_profit has just consumed.
SeenRow == strategy[1].df[cp.index]

\* C12: a step of the loop of calculate_profit on a bar flagged Buy while a
\* position is open leaves the position (buy_price, buy_date) and the trades
\* as they were, and a step on a bar flagged Sell while flat leaves the
\* strategy flat and the trades as they were.
C12_IgnoredFlagsChangeNothing ==
    [][(cp.pc = "loop" /\ cp'.pc = "loop" /\ cp'.index = cp.index + 1) =>
          /\ (SeenRow.Buy_Signal /\ cp.position # None
                 => cp'.position = cp.position /\ cp'.trades = cp.trades)
          /\ (SeenRow.Sell_Signal /\ cp.position = None
                 => cp'.position = None /\ cp'.trades = cp.trades)]_vars

\* The walk has passed a Sell bar while flat and a Buy bar while long: a
\* Sell bar that closed no trade and lies before the open position, and a
\* Buy bar after the one the open position was bought at.
C12_Witness ==
    /\ cp.pc = "loop"
    /\ cp.position # None
    /\ \E u \in 1..(cp.index - 1) :
          /\ strategy[1].df[u].Sell_Signal
          /\ strategy[1].df[u].date < cp.position[1].buy_date
          /\ \A k \in 1..Len(cp.trades) :
                cp.trades[k].sell_date # strategy[1].df[u].date
    /\ \E u \in 1..(cp.index - 1) :
          /\ strategy[1].df[u].Buy_Signal
          /\ strategy[1].df[u].date > cp.position[1].buy_date

\* The number of Buy/Sell pairs read off the flag columns by index search,
\* and the bar of the Buy flag left without a Sell flag after it (0 if none).
RECURSIVE FlaggedPairs(_, _)
FlaggedPairs(df, from) ==
    LET b == FirstFlag(df, "Buy_Signal", from)
        s == IF b = 0 THEN 0 ELSE FirstFlag(df, "Sell_Signal", b + 1)
    IN IF b = 0 \/ s = 0 THEN 0 ELSE 1 + FlaggedPairs(df, s + 1)

RECURSIVE FlaggedOpen(_, _)
FlaggedOpen(df, from) ==
    LET b == FirstFlag(df, "Buy_Signal", from)
        s == IF b = 0 THEN 0 ELSE FirstFlag(df, "Sell_Signal", b + 1)
    IN IF b = 0 THEN 0 ELSE IF s = 0 THEN b ELSE FlaggedOpen(df, s + 1)

\* C13: a position still open when the series ends is neither closed nor
\* counted.  When calculate_profit has returned, the position bought at the
\* last unanswered Buy flag is still open, every trade was sold on a bar
\* flagged Sell, the number of trades is the number of Buy/Sell pairs (the
\* Long -> Flat transitions) and total_profit holds the profit of those
\* pairs only.
C13_OpenPositionNotCounted ==
    cp.pc = "returned" =>
        LET df == strategy[1].df
            open == FlaggedOpen(df, 1)
        IN /\ Len(cp.trades) = FlaggedPairs(df, 1)
           /\ cp.total_profit = FlaggedProfit(df, strategy[1].quantity, 1)
           /\ \A k \in 1..Len(cp.trades) :
                 \E t \in 1..Len(df) : /\ df[t].date = cp.trades[k].sell_date
                                       /\ df[t].Sell_Signal
           /\ (open = 0 <=> cp.position = None)
           /\ open # 0 =>
                 /\ cp.position[1].buy_date = df[open].date
                 /\ cp.position[1].buy_price = df[open].close
                 /\ \A k \in 1..Len(cp.trades) :
                       /\ cp.trades[k].buy_date # df[open].date
                       /\ cp.trades[k].sell_date < df[open].date

\* calculate_profit returned with trades made and a position left open whose
\* sale at the last close would have changed the total.
C13_Witness ==
    /\ cp.pc = "returned"
    /\ cp.position # None
    /\ Len(cp.trades) >= 1
    /\ strategy[1].df[Len(strategy[1].df)].close # cp.position[1].buy_price

\* The constraints of the constructor's arguments, read off the arguments.
LacksClose(df) == Len(df) = 0 \/ "close" \notin DOMAIN df[1]

TooShort(df) == Len(df) < MIN_DATA_POINTS

MissingClose(df) ==
    ~LacksClose(df) /\ \E t \in 1..Len(df) : df[t].close = NaN

NonPositiveClose(df) ==
    ~LacksClose(df) /\ \E t \in 1..Len(df) : df[t].close # NaN /\ df[t].close <= 0

PeriodsPositive(c) ==
    c.fast_period > 0 /\ c.slow_period > 0 /\ c.signal_period > 0

\* The constraint an error message names is one the arguments break.
NamesViolated(msg, c) ==
    \/ msg = "DataFrame cannot be None or empty" /\ Len(c.df) = 0
    \/ msg = "DataFrame must contain 'close' column" /\ LacksClose(c.df)
    \/ msg = "Insufficient data" /\ TooShort(c.df)
    \/ msg = "Quantity must be positive" /\ c.quantity <= 0
    \/ msg = "All periods must be positive integers" /\ ~PeriodsPositive(c)
    \/ msg = "Fast period must be less than slow period"
           /\ c.fast_period >= c.slow_period
    \/ msg = "Close prices contain NaN values" /\ MissingClose(c.df)
    \/ msg = "Close prices must be positive" /\ NonPositiveClose(c.df)

InvalidSeriesOrPeriods(c) ==
    \/ LacksClose(c.df)
    \/ TooShort(c.df)
    \/ MissingClose(c.df)
    \/ NonPositiveClose(c.df)
    \/ c.fast_period >= c.slow_period

\* C14: once the constructor has run, it has raised an error naming a
\* constraint the arguments break and built no strategy whenever the series
\* lacks a close column, has fewer than MIN_DATA_POINTS bars, holds a missing
\* or non-positive close, or fast_period is not below slow_period; in every
\* other case with quantity and periods positive it has raised nothing and
\* built the strategy.
C14_ConstructionValidates ==
    ~call.pending =>
        /\ InvalidSeriesOrPeriods(call) =>
              /\ call.raised # None
              /\ NamesViolated(call.raised[1], call)
              /\ strategy = None
        /\ (~InvalidSeriesOrPeriods(call) /\ call.quantity > 0
               /\ PeriodsPositive(call)) =>
              /\ call.raised = None
              /\ strategy # None

\* The constructor refused a full-length series with positive quantity and
\* ordered positive periods whose only fault is a missing close.
C14_Witness ==
    /\ ~call.pending
    /\ call.raised = Some("Close prices contain NaN values")
    /\ strategy = None
    /\ ~NonPositiveClose(call.df)

\* C15: an update() while the price log does not exist returns 0, appends
\* nothing to the indicator log and leaves last_processed_line and the whole
\* indicator state unchanged; the update() that follows once the log has
\* appeared processes its rows from the first one on.
C15_MissingLogIsNoOp ==
    [][update =>
          /\ (input_file = None =>
                 /\ update_ret' = Some(0)
                 /\ output_file' = output_file
                 /\ indicator' = indicator)
          /\ (input_file # None /\ update_ret = Some(0)
                 /\ indicator.last_processed_line = 0) =>
                 LET points == LoggedPoints(input_file[1])
                 IN /\ update_ret' = Some(Len(points))
                    /\ WrittenPoints(output_file') = points
                    /\ indicator'.timestamps =
                           [k \in 1..Len(points) |-> points[k][1]]
                    /\ indicator'.prices =
                           [k \in 1..Len(points) |-> points[k][2] * Scale]
                    /\ indicator'.last_processed_line = Len(input_file[1])]_vars

\* update() has run on the missing log (it returned 0 and no line is counted
\* as processed) and the log has since appeared with several rows.
C15_Witness ==
    /\ update_ret = Some(0)
    /\ indicator.last_processed_line = 0
    /\ output_file = <<OutputHeader>>
    /\ input_file # None
    /\ RowCount(input_file) >= 2

\* C16: the indicator log is append-only across processor constructions
\* and update() calls: every line it holds stays where it is and as it is,
\* its first line is the header, and an update() adds exactly one row per
\* price it processed, after the existing ones.
C16_IndicatorLogAppendOnly ==
    [][/\ Len(output_file') >= Len(output_file)
       /\ SubSeq(output_file', 1, Len(output_file)) = output_file
       /\ output_file'[1] = OutputHeader
       /\ update =>
             Len(output_file') = Len(output_file)
                 + (Len(indicator'.prices) - Len(indicator.prices))]_vars

\* The price log that ingestion appends to for the processor's pair.
IngestedLog ==
    LET file_path == _get_price_file_path(call.symbol, call.exchange)
    IN IF file_path = call.input_file THEN input_file
       ELSE stock_data[file_path]

\* C17: the price log that append_live_price appends to for an (exchange,
\* symbol) is the file the processor created for that pair reads: an
\* update() returns every row ingestion has appended that no earlier
\* update() returned, so that the indicator log then holds a row for each
\* ingested row.
C17_IngestionFeedsProcessor ==
    [][update =>
          /\ update_ret' = Some(RowCount(IngestedLog)
                                    - Len(DataRows(output_file)))
          /\ Len(DataRows(output_file')) = RowCount(IngestedLog)]_vars

(***************************************************************************)
(* Properties of _process_new_price, stated on the lists the processor     *)
(* keeps: the n-th entries are what the n-th price produced.               *)
(***************************************************************************)
\* values[from] + ... + values[to]
RECURSIVE SumRange(_, _, _)
SumRange(values, from, to) ==
    IF from > to THEN 0 ELSE values[from] + SumRange(values, from + 1, to)

\* the simple average of the `period` values ending at index n
AverageOfLast(values, n, period) ==
    SumRange(values, n - period + 1, n) \div period

\* fast_ema and slow_ema after the n-th price, by the rule of each range of n
RECURSIVE FastAt(_, _)
FastAt(ind, n) ==
    IF n = 1 THEN ind.prices[1]
    ELSE IF n <= ind.slow_period /\ n >= ind.fast_period
    THEN AverageOfLast(ind.prices, n, ind.fast_period)
    ELSE EwmStep(ind.prices[n], FastAt(ind, n - 1), ind.fast_period)

RECURSIVE SlowAt(_, _)
SlowAt(ind, n) ==
    IF n = 1 THEN ind.prices[1]
    ELSE IF n = ind.slow_period
    THEN AverageOfLast(ind.prices, n, ind.slow_period)
    ELSE EwmStep(ind.prices[n], SlowAt(ind, n - 1), ind.slow_period)

\* C18: after n prices, fast_ema and slow_ema are the price at n = 1, the
\* simple average of the last fast_period prices for fast_period <= n <=
\* slow_period (of the last slow_period prices exactly at n = slow_period)
\* and an EMA step otherwise; macd is 0 and signal 0 at n = 1, and at every n
\* macd = fast_ema - slow_ema and histogram = macd - signal.
C18_EmaBranchesByCount ==
    (indicator # None /\ Len(indicator.prices) >= 1) =>
        LET n == Len(indicator.prices)
        IN /\ indicator.fast_ema = Some(FastAt(indicator, n))
           /\ indicator.slow_ema = Some(SlowAt(indicator, n))
           /\ Len(indicator.macd_line) = n
           /\ Len(indicator.signal_line) = n
           /\ Len(indicator.histogram) = n
           /\ indicator.macd_line[1] = 0
           /\ indicator.signal_line[1] = 0
           /\ \A k \in 1..n :
                 /\ indicator.macd_line[k] =
                        FastAt(indicator, k) - SlowAt(indicator, k)
                 /\ indicator.histogram[k] =
                        indicator.macd_line[k] - indicator.signal_line[k]

\* Prices past the slow period of a processor whose fast period is above 2:
\* fast_ema went through an EMA step, the averages and EMA steps again, on
\* prices that moved.
C18_Witness ==
    /\ indicator # None
    /\ indicator.fast_period >= 3
    /\ Len(indicator.prices) > indicator.slow_period
    /\ indicator.macd_line[2] # 0
    /\ indicator.macd_line[Len(indicator.prices)] # 0
    /\ indicator.prices[3] # indicator.prices[1]

\* C19 as stated: during warm-up (2 <= n <= slow_period) the signal is the
\* previous signal value, so that it trails macd by one step.
C19_WarmupSignalTrails ==
    indicator # None =>
        \A k \in 2..Len(indicator.signal_line) :
            k <= indicator.slow_period =>
                \/ indicator.signal_line[k] = indicator.signal_line[k - 1]
                \/ indicator.signal_line[k] = indicator.macd_line[k - 1]

\* C19, amended: during warm-up (2 <= n <= slow_period) no signal_ema is held
\* yet, so the signal written is the current macd and the histogram is 0.
C19_WarmupSignalIsMacd ==
    indicator # None =>
        /\ (Len(indicator.prices) <= indicator.slow_period
               => indicator.signal_ema = None)
        /\ \A k \in 2..Len(indicator.signal_line) :
              k <= indicator.slow_period =>
                  /\ indicator.signal_line[k] = indicator.macd_line[k]
                  /\ indicator.histogram[k] = 0

\* Warm-up steps on which macd moved: macd at the second price is not the 0
\* written at the first, and macd at the third is not macd at the second.
C19_Witness ==
    /\ indicator # None
    /\ indicator.slow_period >= 3
    /\ Len(indicator.macd_line) >= 3
    /\ indicator.macd_line[2] # 0
    /\ indicator.macd_line[3] # indicator.macd_line[2]

\* EMA step of the contract: the value itself when no EMA is held yet
EmaStepFrom(held, value, period) ==
    IF held = None THEN value ELSE EwmStep(value, held[1], period)

\* signal_ema held after the k-th price, by the rule for n > slow_period
RECURSIVE HeldAt(_, _)
HeldAt(ind, k) ==
    IF k <= ind.slow_period THEN None
    ELSE IF k - 1 >= ind.signal_period
    THEN Some(EmaStepFrom(HeldAt(ind, k - 1), ind.macd_line[k],
                          ind.signal_period))
    ELSE IF k >= ind.signal_period
    THEN Some(AverageOfLast(ind.macd_line, k, ind.signal_period))
    ELSE HeldAt(ind, k - 1)

\* C20: for n > slow_period, with at least signal_period MACD values
\* recorded before the step the signal is an EMA step on the new MACD value;
\* otherwise with signal_period values including the new one it is the
\* simple average of the last signal_period MACD values, held as signal_ema;
\* below that it repeats the held signal_ema, or is the macd if none is held.
C20_SignalAfterWarmup ==
    indicator # None =>
        /\ indicator.signal_ema = HeldAt(indicator, Len(indicator.macd_line))
        /\ \A k \in 1..Len(indicator.signal_line) :
              k > indicator.slow_period =>
                  indicator.signal_line[k] =
                      IF k - 1 >= indicator.signal_period
                          \/ k >= indicator.signal_period
                      THEN HeldAt(indicator, k)[1]
                      ELSE IF HeldAt(indicator, k - 1) # None
                      THEN HeldAt(indicator, k - 1)[1]
                      ELSE indicator.macd_line[k]

\* A processor whose signal period is above its slow period has gone through
\* the three cases: macd repeated below the threshold, the averaged seed, and
\* an EMA step from the seed, each leaving a signal apart from macd.
C20_Witness ==
    /\ indicator # None
    /\ indicator.signal_period > indicator.slow_period + 1
    /\ Len(indicator.macd_line) > indicator.signal_period
    /\ indicator.signal_line[indicator.signal_period]
           # indicator.macd_line[indicator.signal_period]
    /\ indicator.signal_line[Len(indicator.macd_line)]
           # indicator.macd_line[Len(indicator.macd_line)]
    /\ indicator.signal_line[Len(indicator.macd_line)]
           # indicator.signal_line[indicator.signal_period]

(***************************************************************************)
(* load_local_data on its own: a folder is drawn, one timeframe is asked   *)
(* for.  The 1m file holds a run of consecutive minutes of a length just   *)
(* below or at a threshold of the aggregators, starting on a minute that   *)
(* is or is not a multiple of the bar sizes; a daily file is there or not. *)
(***************************************************************************)
AlignedMinute == 540    \* 09:00, a multiple of 10, 30, 60 and 180 minutes

LoadLengths == {9, 10, 29, 30, 59, 60, 179, 180, 1439, 1440}

LoadStarts == {AlignedMinute, FirstMinute}

\* closes that wander around BaseClose without repeating inside a bucket
MinuteClose(t) == BaseClose + ((7 * t) % 13)

MinuteFile(first, n) ==
    Some([ok |-> TRUE,
          rows |-> [t \in 1..n |-> [date |-> first + (t - 1),
                                    close |-> MinuteClose(t)]]])

LoadFolders ==
    {[k \in FileKeys |->
         IF k = "1m" THEN b ELSE IF k = "1d" THEN d ELSE None] :
       b \in {None, Unreadable}
              \cup {MinuteFile(first, n) : first \in LoadStarts,
                                           n \in LoadLengths},
       d \in {None, File(<<1, -1>>, MIN_DATA_POINTS, "1d")}}

IdleLoad == [pc |-> "idle", timeframe |-> "none", df |-> None]

InitLoad ==
    /\ stock_data \in LoadFolders
    /\ run = IdleLoad
    /\ best = None
    /\ call = None /\ strategy = None /\ cp = IdleFrame
    /\ input_file = None /\ output_file = <<>>
    /\ indicator = None /\ update_ret = None

\* load_local_data(symbol, exchange, timeframe)
load_local_data_call(timeframe) ==
    /\ run.pc = "idle"
    /\ run' = [pc |-> "loaded", timeframe |-> timeframe,
               df |-> load_local_data(stock_data, timeframe)]
    /\ UNCHANGED <<stock_data, best, batch_vars, stream_vars>>

NextLoad ==
    \E timeframe \in {TIMEFRAMES[i] : i \in 1..Len(TIMEFRAMES)} :
        load_local_data_call(timeframe)

SpecLoad == InitLoad /\ [][NextLoad]_vars

(***************************************************************************)
(* Properties of load_local_data and of the aggregation it falls back to.  *)
(***************************************************************************)
\* the one-minute bars the 1m file of the folder loads to (none if it fails)
MinuteBars == LET df == _load_csv_file(stock_data["1m"])
              IN IF df = None THEN <<>> ELSE df[1]

\* the timeframe asked for is one that is aggregated, and has no file
Aggregated ==
    /\ run.pc = "loaded"
    /\ run.timeframe \in {"10m", "30m", "1h", "3h", "1d"}
    /\ stock_data[run.timeframe] = None

\* C21: for an aggregated timeframe without a file of its own, a 1m series
\* of fewer bars than the threshold of the timeframe (10, 30, 60, 180, 1440)
\* makes load_local_data return no series at all; 9 one-minute bars give no
\* 10-minute series.
C21_BelowThresholdNoSeries ==
    (Aggregated /\ Len(MinuteBars) < BarMinutes(run.timeframe)) =>
        run.df = None

\* The 10-minute series was asked for over a 1m file of exactly 9 bars, and
\* none came back.
C21_Witness ==
    /\ Aggregated
    /\ run.timeframe = "10m"
    /\ Len(MinuteBars) = 9
    /\ run.df = None

\* the aggregate of a run of one-minute bars: open of the first, close of
\* the last, highest high, lowest low, volumes added up
RECURSIVE VolumeSum(_, _)
VolumeSum(bars, n) == IF n = 0 THEN 0 ELSE bars[n].volume + VolumeSum(bars, n - 1)

IsAggregateOf(bar, bars) ==
    /\ bar.open = bars[1].open
    /\ bar.close = bars[Len(bars)].close
    /\ \E i \in 1..Len(bars) : bar.high = bars[i].high
    /\ \A i \in 1..Len(bars) : bar.high >= bars[i].high
    /\ \E i \in 1..Len(bars) : bar.low = bars[i].low
    /\ \A i \in 1..Len(bars) : bar.low <= bars[i].low
    /\ bar.volume = VolumeSum(bars, Len(bars))

\* C22: exactly 10 consecutive one-minute bars, whatever minute the first
\* one starts at, aggregate to exactly one 10-minute bar: open of the first
\* bar, close of the last, the maximum high, the minimum low, the volumes
\* added up.
C22_TenBarsMakeOneBar ==
    (Aggregated /\ run.timeframe = "10m" /\ Len(MinuteBars) = 10) =>
        /\ run.df # None
        /\ Len(run.df[1]) = 1
        /\ IsAggregateOf(run.df[1][1], MinuteBars)

\* the series came from resampling the 1m series (not from the daily file)
Resampled ==
    /\ Aggregated
    /\ run.df # None
    /\ Len(MinuteBars) >= BarMinutes(run.timeframe)

\* the one-minute bars whose minute lies in the bucket starting at `date`
BucketOf(date, minutes) ==
    SelectSeq(MinuteBars, LAMBDA b : date <= b.date /\ b.date < date + minutes)

\* C23: every bar of a series derived by resampling aggregates one complete
\* bucket: as many one-minute bars as the bucket has minutes, with open =
\* first, high = max, low = min, close = last, volume = sum; a bucket holding
\* fewer one-minute bars is not in the output.
C23_OnlyCompleteBuckets ==
    Resampled =>
        \A k \in 1..Len(run.df[1]) :
            LET bucket == BucketOf(run.df[1][k].date, BarMinutes(run.timeframe))
            IN /\ Len(bucket) = BarMinutes(run.timeframe)
               /\ IsAggregateOf(run.df[1][k], bucket)

(***************************************************************************)
(* get_strategy_stats on its own, over every short list of trades with a   *)
(* gain, a loss or neither: the trades and the total are what its call of  *)
(* calculate_profit returned.                                              *)
(***************************************************************************)
MaxTrades == 4          \* trades in a drawn list

PriceMoves == {-2, 0, 3}

TradeOf(k, move, quantity) ==
    [buy_date |-> 2 * k - 1, sell_date |-> 2 * k,
     buy_price |-> BaseClose, sell_price |-> BaseClose + move,
     profit |-> move * quantity,
     return_pct |-> (move * 100 * Scale) \div BaseClose]

TradeLists ==
    UNION {{[k \in 1..n |-> TradeOf(k, moves[k], DEFAULT_QUANTITY)] :
               moves \in [1..n -> PriceMoves]} : n \in 0..MaxTrades}

IdleStats == [pc |-> "idle", stats |-> None]

InitStats ==
    /\ \E trades \in TradeLists :
          cp = [pc |-> "returned", index |-> 0, position |-> None,
                trades |-> trades, total_profit |-> TotalProfit(trades)]
    /\ run = IdleStats
    /\ best = None /\ stock_data = None
    /\ call = None /\ strategy = None
    /\ input_file = None /\ output_file = <<>>
    /\ indicator = None /\ update_ret = None

\* get_strategy_stats, after its call of calculate_profit has returned
get_strategy_stats_call ==
    /\ run.pc = "idle"
    /\ cp.pc = "returned"
    /\ run' = [pc |-> "done",
               stats |-> Some(StrategyStats(cp.trades, cp.total_profit))]
    /\ UNCHANGED <<stock_data, best, batch_vars, stream_vars>>

SpecStats == InitStats /\ [][get_strategy_stats_call]_vars

(***************************************************************************)
(* Properties of get_strategy_stats.                                       *)
(***************************************************************************)
CountTrades(trades, Test(_)) == Cardinality({k \in 1..Len(trades) : Test(trades[k])})

\* C24: for every trade list the statistics returned have win_rate within
\* [0, 100], total_trades the number of trades, winning_trades the number of
\* trades with profit > 0, losing_trades the number with profit < 0, and
\* winning_trades + losing_trades <= total_trades.
C24_StatsInvariants ==
    run.pc = "done" =>
        LET stats == run.stats[1]
        IN /\ 0 <= stats.win_rate /\ stats.win_rate <= 100 * Scale
           /\ stats.total_trades = Len(cp.trades)
           /\ {"winning_trades", "losing_trades"} \subseteq DOMAIN stats
           /\ stats.winning_trades =
                  CountTrades(cp.trades, LAMBDA t : t.profit > 0)
           /\ stats.losing_trades =
                  CountTrades(cp.trades, LAMBDA t : t.profit < 0)
           /\ stats.winning_trades + stats.losing_trades <= stats.total_trades

\* the statistics the aggregator defines
StatNames == {"total_trades", "win_rate", "avg_profit_per_trade",
              "max_profit", "max_loss", "winning_trades", "losing_trades"}

\* C25: for an empty trade list get_strategy_stats returns statistics in
\* which every statistic the aggregator defines is present and zero.
C25_EmptyStatsAllZero ==
    (run.pc = "done" /\ Len(cp.trades) = 0) =>
        \A name \in StatNames :
            /\ name \in DOMAIN run.stats[1]
            /\ run.stats[1][name] = 0

(***************************************************************************)
(* Live tick ingestion: BrokerageClient._update_price_logger for the ticks *)
(* of one (exchange, symbol), in non-decreasing time order.  call holds    *)
(* the entry of _last_logged_tick for the pair, input_file the per-minute  *)
(* price log, run the ticks that have arrived.                             *)
(***************************************************************************)
MaxTicks == 5           \* ticks that arrive

TickPrices == {0, 98, 105}

\* seconds from one tick to the next: the same minute, the next, a later one
TickGaps == {0, 20, 60, 130}

FirstTick == FirstMinute * 60

\* dt_obj.replace(second=0, microsecond=0), counted in minutes
MinuteOfTick(timestamp) == timestamp \div 60

\* MarketDataLogger._validate_price_inputs, for a named pair
_validate_price_inputs(last_price) == last_price > 0

InitTicks ==
    /\ call = None
    /\ input_file = None
    /\ run = [ticks |-> <<>>]
    /\ output_file = <<>> /\ indicator = None /\ update_ret = None
    /\ strategy = None /\ cp = IdleFrame
    /\ stock_data = None /\ best = None

_update_price_logger ==
    /\ Len(run.ticks) < MaxTicks
    /\ \E last_price \in TickPrices, gap \in TickGaps :
          LET timestamp == IF Len(run.ticks) = 0 THEN FirstTick
                           ELSE run.ticks[Len(run.ticks)].timestamp + gap
              dt_minute == MinuteOfTick(timestamp)
              entry == Some([minute |-> dt_minute, price |-> last_price])
          IN /\ run' = [ticks |-> Append(run.ticks,
                            [timestamp |-> timestamp, last_price |-> last_price])]
             /\ IF call = None
                THEN call' = entry /\ UNCHANGED input_file
                ELSE IF dt_minute = call[1].minute
                THEN call' = entry /\ UNCHANGED input_file
                ELSE IF _validate_price_inputs(call[1].price)
                THEN /\ input_file' = AppendedRow(input_file,
                                          RowLine(call[1].minute, call[1].price))
                     /\ call' = entry
                ELSE \* append_live_price raises ValueError, caught and logged
                     UNCHANGED <<call, input_file>>
    /\ UNCHANGED <<strategy, cp, output_file, indicator, update_ret,
                   stock_data, best>>

SpecTicks == InitTicks /\ [][_update_price_logger]_vars

(***************************************************************************)
(* Properties of live tick ingestion.                                      *)
(***************************************************************************)
\* <<minute, last price seen in it>> of every minute that had ticks and was
\* followed by a tick of a later minute, in arrival order
RECURSIVE ElapsedMinutes(_, _)
ElapsedMinutes(ticks, i) ==
    IF i >= Len(ticks) THEN <<>>
    ELSE IF MinuteOfTick(ticks[i + 1].timestamp) # MinuteOfTick(ticks[i].timestamp)
    THEN <<<<MinuteOfTick(ticks[i].timestamp), ticks[i].last_price>>>>
             \o ElapsedMinutes(ticks, i + 1)
    ELSE ElapsedMinutes(ticks, i + 1)

\* C26: the per-minute price log holds exactly one row per elapsed minute
\* that had ticks, in increasing minute order, each with the timestamp of
\* its minute and the last price seen in it; the ticks of the current minute
\* have added nothing.
C26_OneRowPerElapsedMinute ==
    LoggedPoints(LinesOf(input_file)) = ElapsedMinutes(run.ticks, 1)

\* C27: with signal_period <= slow_period, signal_ema is unset for every
\* n <= slow_period; signal = macd and histogram = 0 for every n <=
\* slow_period + 1; the signal is first set at n = slow_period + 1, to the
\* MACD value of that step, and from then on every signal is an EMA step from
\* the one before: the averaged seed is never taken.
C27_SeedBranchNeverTaken ==
    (indicator # None /\ indicator.signal_period <= indicator.slow_period) =>
        LET n == Len(indicator.macd_line)
            first == indicator.slow_period + 1
        IN /\ (n <= indicator.slow_period => indicator.signal_ema = None)
           /\ (n >= first =>
                 indicator.signal_ema = Some(indicator.signal_line[n]))
           /\ \A k \in 1..n :
                 IF k <= first
                 THEN /\ indicator.signal_line[k] = indicator.macd_line[k]
                      /\ indicator.histogram[k] = 0
                 ELSE indicator.signal_line[k] =
                          EwmStep(indicator.macd_line[k],
                                  indicator.signal_line[k - 1],
                                  indicator.signal_period)

\* A processor with signal_period <= slow_period two prices past its warm-up:
\* the signal was set to a nonzero macd, and then left macd by an EMA step.
C27_Witness ==
    /\ indicator # None
    /\ indicator.signal_period <= indicator.slow_period
    /\ Len(indicator.macd_line) >= indicator.slow_period + 2
    /\ indicator.signal_line[indicator.slow_period + 1] # 0
    /\ indicator.histogram[indicator.slow_period + 2] # 0


(***************************************************************************)
(* Properties of the orchestrator without base data.                       *)
(***************************************************************************)
\* The 1m base file is absent, unreadable or holds no bar.
BaseUnavailable ==
    LET base_df == _load_csv_file(stock_data["1m"])
    IN base_df = None \/ Len(base_df[1]) = 0

\* C28: when run_multi_timeframe_analysis has returned and the 1m base file
\* could not be loaded or is empty, the results are empty, no iteration of
\* the timeframe loop has run, and no timeframe has an error entry, whatever
\* files of other timeframes are present.
C28_NoBaseNoResults ==
    (MultiReturned /\ BaseUnavailable) =>
        /\ run.results = <<>>
        /\ run.index = 0
        /\ \A k \in TimeframeKeys : ~HasErrorEntry(k)

\* Returned with nothing although the daily file is present with enough bars
\* for the strategy.
C28_Witness ==
    /\ MultiReturned
    /\ BaseUnavailable
    /\ stock_data["1d"] # None
    /\ Len(stock_data["1d"][1].rows) >= MIN_DATA_POINTS
    /\ run.results = <<>>


(***************************************************************************)
(* Properties of the second bar of the batch strategy.                     *)
(***************************************************************************)
\* The position calculate_profit took at the given bar, while it is held or
\* as the first trade records it.
OpenedAt(row) ==
    IF Len(cp.trades) > 0
    THEN /\ cp.trades[1].buy_date = row.date
         /\ cp.trades[1].buy_price = row.close
    ELSE cp.position = Some([buy_price |-> row.close, buy_date |-> row.date])

\* C29: with fast_period < slow_period and signal_period > 1, once the
\* signals are generated the first bar has MACD = Signal = 0 and no flag, the
\* second bar is flagged Buy exactly when its close is above the first one,
\* Sell exactly when it is below, and neither when they are equal; and once
\* calculate_profit is past the second bar of a series that rose there, it
\* has opened a position at that bar.
C29_SecondBarFollowsFirstMove ==
    (/\ strategy # None
     /\ strategy[1].signals_generated
     /\ strategy[1].fast_period < strategy[1].slow_period
     /\ strategy[1].signal_period > 1) =>
        LET df == strategy[1].df
        IN /\ df[1].MACD = 0 /\ df[1].Signal = 0
           /\ ~df[1].Buy_Signal /\ ~df[1].Sell_Signal
           /\ df[2].Buy_Signal <=> df[2].close > df[1].close
           /\ df[2].Sell_Signal <=> df[2].close < df[1].close
           /\ (cp.pc \in {"loop", "returned"} /\ cp.index > 2
                  /\ df[2].close > df[1].close) => OpenedAt(df[2])

\* calculate_profit has just passed the second bar of a series that rose
\* there, and holds the position bought at it.
C29_Witness ==
    /\ strategy # None
    /\ strategy[1].signals_generated
    /\ cp.pc = "loop" /\ cp.index = 3
    /\ strategy[1].df[2].close > strategy[1].df[1].close
    /\ strategy[1].df[2].Buy_Signal
    /\ cp.position = Some([buy_price |-> strategy[1].df[2].close,
                           buy_date |-> strategy[1].df[2].date])


(***************************************************************************)
(* Properties of the processor's lists and its indicator log.              *)
(***************************************************************************)
\* C30: after any sequence of update() calls on one processor, its prices,
\* timestamps, macd_line, signal_line and histogram lists have the same
\* length, that length is the number of data rows of its indicator log
\* (header excluded), and it does not exceed last_processed_line.
C30_ListsMatchLog ==
    indicator # None =>
        LET n == Len(indicator.prices)
        IN /\ Len(indicator.timestamps) = n
           /\ Len(indicator.macd_line) = n
           /\ Len(indicator.signal_line) = n
           /\ Len(indicator.histogram) = n
           /\ Len(DataRows(output_file)) = n
           /\ n <= indicator.last_processed_line

\* An update has processed prices: the lists and the log hold two or more
\* entries, one fewer than the lines read (the header is a line).
C30_Witness ==
    /\ indicator # None
    /\ update_ret # None /\ update_ret[1] > 0
    /\ Len(indicator.prices) >= 2
    /\ Len(indicator.histogram) = Len(indicator.prices)
    /\ Len(DataRows(output_file)) = Len(indicator.prices)
    /\ indicator.last_processed_line = Len(indicator.prices) + 1

====
